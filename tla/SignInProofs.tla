---------------------------- MODULE SignInProofs ----------------------------
(***************************************************************************)
(* Theorems about SignIn that hold for every choice of its constants.      *)
(***************************************************************************)
EXTENDS SignIn, TLAPS

Reqs == [at : InFlight \cup {"none", "over"}, kind : Forms \cup {"logout"},
         tab : Tabs \cup {NoTab}, account : Accounts \cup {NoUser},
         token : Requests \cup {NoRequest}, valid : BOOLEAN]
Mes == [at : {"idle", "sent", "served"}, token : Requests \cup {NoRequest},
        answer : Accounts \cup {NoUser}]

-----------------------------------------------------------------------------
(* Type correctness.                                                       *)

\* The ranges alone.
Ranges ==
    /\ sessions \subseteq Requests
    /\ cookie \in Requests \cup {NoRequest} /\ csrf \in Requests \cup {NoRequest}
    /\ user \in [Tabs -> Accounts \cup {NoUser}]
    /\ loading \in [Tabs -> BOOLEAN]
    /\ me \in [Tabs -> Mes]
    /\ where \in [Tabs -> Places]
    /\ submitting \in [Tabs -> Requests \cup {NoRequest}]
    /\ req \in [Requests -> Reqs]
    /\ behind \subseteq Tabs

LEMMA TypeParts ==
    /\ TypeOK <=> Ranges /\ GuardsHold /\ FormsWait /\ AnswersAreAwaited
    /\ TypeOK' <=> Ranges' /\ GuardsHold' /\ FormsWait' /\ AnswersAreAwaited'
BY DEF TypeOK, Ranges, Reqs, Mes

LEMMA GuardedPlace ==
    ASSUME NEW place \in Places, NEW u
    PROVE  /\ Guarded(place, u) \in Places
           /\ Guarded(place, u) \in GuestPlaces <=> u = NoUser
           /\ Guarded(place, u) \in Forms => place \in Forms \/ Guarded(place, u) = "login"
BY DEF Guarded, Places, GuestPlaces, Forms, Entries

LEMMA ForgottenReq ==
    ASSUME req \in [Requests -> Reqs], NEW r \in Requests
    PROVE  /\ Forgotten(r) \in Reqs /\ Forgotten(r).at = "over" /\ Forgotten(r).tab = NoTab
           /\ Forgotten(r).account = req[r].account
BY DEF Forgotten, NotSent, Reqs, InFlight, Forms, Entries

\* A request moves on, or is forgotten if nobody waits for it.
LEMMA ToReq ==
    ASSUME Ranges, NEW r \in Requests, NEW place \in InFlight, To(r, place)
    PROVE  /\ req' \in [Requests -> Reqs]
           /\ \A s \in Requests : s # r => req'[s] = req[s]
           /\ req'[r].account = req[r].account /\ req'[r].tab = req[r].tab
           /\ req'[r].tab # NoTab => req'[r].at = place
           /\ req'[r].tab = NoTab => req'[r].at = "over"
<1>1. req \in [Requests -> Reqs]
  BY DEF Ranges
<1>2. CASE req[r].tab = NoTab
  <2>1. req' = [req EXCEPT ![r] = Forgotten(r)]
    BY <1>1, <1>2 DEF To
  <2>. QED  BY <1>1, <1>2, <2>1, ForgottenReq
<1>3. CASE req[r].tab # NoTab
  <2>1. req' = [req EXCEPT ![r] = [req[r] EXCEPT !.at = place]]
    BY <1>1, <1>3 DEF To
  <2>. QED  BY <1>1, <1>3, <2>1 DEF Reqs
<1>. QED  BY <1>2, <1>3

LEMMA OverReq ==
    ASSUME Ranges, NEW r \in Requests, Over(r)
    PROVE  /\ req' \in [Requests -> Reqs]
           /\ \A s \in Requests : s # r => req'[s] = req[s]
           /\ req'[r].account = req[r].account /\ req'[r].tab = NoTab /\ req'[r].at = "over"
<1>1. req \in [Requests -> Reqs]
  BY DEF Ranges
<1>. QED  BY <1>1, ForgottenReq DEF Over

\* Steps that leave the pages alone and move a request on its way.
LEMMA PagesStay ==
    ASSUME TypeOK, NEW r \in Requests, UNCHANGED <<user, loading, me, where, submitting>>,
           \A s \in Requests : s # r => req'[s] = req[s],
           req'[r].tab = req[r].tab,
           \/ req[r].tab = NoTab /\ req'[r].at \in {"none", "sent", "over"}
           \/ req[r].tab # NoTab /\ {req[r].at, req'[r].at} \subseteq InFlight
    PROVE  GuardsHold' /\ FormsWait' /\ AnswersAreAwaited'
<1>1. GuardsHold'
  BY DEF TypeOK, GuardsHold
<1>2. FormsWait'
  <2> SUFFICES ASSUME NEW t \in Tabs
               PROVE  /\ submitting[t] # NoRequest =>
                           /\ req'[submitting[t]].at \in InFlight /\ req'[submitting[t]].tab = t
                           /\ where[t] \in Forms /\ ~loading[t]
                      /\ loading[t] <=> me[t].at # "idle"
                      /\ loading[t] =>
                           /\ user[t] = NoUser
                           /\ \A s \in Requests : req'[s].tab = t => req'[s].at \notin InFlight
    BY DEF FormsWait
  <2>1. t # NoTab /\ submitting[t] \in Requests \cup {NoRequest}
    BY SignInAssumption DEF TypeOK
  <2>. QED  BY <2>1 DEF TypeOK, FormsWait
<1>3. AnswersAreAwaited'
  BY DEF TypeOK, AnswersAreAwaited
<1>. QED  BY <1>1, <1>2, <1>3

LEMMA InitTypeOK == Init => TypeOK
<1> SUFFICES ASSUME Init
             PROVE  TypeOK
  OBVIOUS
<1>1. NotSent \in Reqs
  BY DEF NotSent, Reqs, InFlight, Forms, Entries
<1>2. [Idle EXCEPT !.at = "sent"] \in Mes
  BY DEF Idle, Mes
<1>3. Ranges
  BY <1>1, <1>2 DEF Init, Ranges, Places
<1>4. GuardsHold /\ FormsWait /\ AnswersAreAwaited
  BY DEF Init, GuardsHold, FormsWait, AnswersAreAwaited, NotSent, Idle, InFlight
<1>. QED  BY <1>3, <1>4, TypeParts

\* An answer that decides who is signed in in a tab and where the tab is.
LEMMA BecomesType ==
    ASSUME TypeOK, NEW r \in Requests, NEW u \in Accounts \cup {NoUser}, NEW place,
           place \in Places, req[r].tab \in Tabs,
           req[r].at \in InFlight, Becomes(r, u, place), Over(r), UNCHANGED <<loading, me>>
    PROVE  /\ user' \in [Tabs -> Accounts \cup {NoUser}] /\ where' \in [Tabs -> Places]
           /\ submitting' \in [Tabs -> Requests \cup {NoRequest}]
           /\ req' \in [Requests -> Reqs]
           /\ GuardsHold' /\ FormsWait' /\ AnswersAreAwaited'
<1> DEFINE t == req[r].tab
           to == Guarded(place, u)
<1>0. Ranges /\ GuardsHold /\ FormsWait /\ AnswersAreAwaited
  BY TypeParts
<1>1. /\ req' \in [Requests -> Reqs] /\ req'[r].tab = NoTab
      /\ \A s \in Requests : s # r => req'[s] = req[s]
  BY <1>0, OverReq
<1>2. /\ user' = [user EXCEPT ![t] = u]
      /\ where' = [where EXCEPT ![t] = to]
      /\ submitting' = [submitting EXCEPT
             ![t] = IF to = where[t] /\ submitting[t] # r THEN submitting[t] ELSE NoRequest]
  BY DEF Becomes
<1>3. t \in Tabs /\ to \in Places /\ ~loading[t] /\ (to \in GuestPlaces <=> u = NoUser)
  BY <1>0, GuardedPlace DEF FormsWait
<1> HIDE DEF t, to
<1>4. /\ user' \in [Tabs -> Accounts \cup {NoUser}] /\ where' \in [Tabs -> Places]
      /\ submitting' \in [Tabs -> Requests \cup {NoRequest}]
  BY <1>0, <1>2, <1>3 DEF Ranges
<1>5. \A x \in Tabs : x # t => user'[x] = user[x] /\ where'[x] = where[x]
                               /\ submitting'[x] = submitting[x]
  BY <1>0, <1>2 DEF Ranges
<1>6. /\ user'[t] = u /\ where'[t] = to
      /\ \/ submitting'[t] = NoRequest
         \/ submitting'[t] = submitting[t] /\ submitting[t] # r /\ to = where[t]
  BY <1>0, <1>2, <1>3 DEF Ranges
<1>7. GuardsHold'
  BY <1>0, <1>3, <1>5, <1>6 DEF GuardsHold
<1>8. ASSUME NEW x \in Tabs, submitting'[x] # NoRequest
      PROVE  /\ req'[submitting'[x]].at \in InFlight /\ req'[submitting'[x]].tab = x
             /\ where'[x] \in Forms /\ ~loading'[x]
  <2>1. submitting'[x] = submitting[x] /\ where'[x] = where[x] /\ submitting[x] # r
    <3>1. CASE x = t
      BY <1>6, <1>8, <3>1
    <3>2. CASE x # t
      BY <1>0, <1>5, <1>8, <3>2 DEF FormsWait, t
    <3>. QED  BY <3>1, <3>2
  <2>2. submitting[x] \in Requests
    BY <1>0, <1>8, <2>1 DEF Ranges
  <2>. QED  BY <1>0, <1>1, <1>8, <2>1, <2>2 DEF FormsWait
<1>9. ASSUME NEW x \in Tabs, loading'[x]
      PROVE  /\ user'[x] = NoUser
             /\ \A s \in Requests : req'[s].tab = x => req'[s].at \notin InFlight
  <2>1. x # t /\ loading[x]
    BY <1>3, <1>9
  <2>2. x # NoTab
    BY SignInAssumption
  <2>. QED  BY <1>0, <1>1, <1>5, <2>1, <2>2 DEF FormsWait
<1>10. FormsWait'
  <2>1. \A x \in Tabs : loading'[x] <=> me'[x].at # "idle"
    BY <1>0 DEF FormsWait
  <2>. QED  BY <1>8, <1>9, <2>1 DEF FormsWait
<1>11. AnswersAreAwaited'
  <2>1. req'[r].at = "over"
    BY <1>0, OverReq
  <2>. QED  BY <1>0, <1>1, <2>1 DEF AnswersAreAwaited
<1>. QED  BY <1>1, <1>4, <1>7, <1>10, <1>11

LEMMA AnswerTypeOK ==
    ASSUME TypeOK, NEW r \in Requests,
           SignedIn(r) \/ ResetDone(r) \/ SignedOut(r) \/ LogoutFails(r)
    PROVE  TypeOK'
<1> USE DEF cookies
<1>0. Ranges /\ GuardsHold /\ FormsWait /\ AnswersAreAwaited
  BY TypeParts
<1>1. req[r] \in Reqs /\ req[r].at \in InFlight /\ req[r].tab \in Tabs
  BY <1>0 DEF Ranges, Reqs, AnswersAreAwaited, SignedIn, ResetDone, SignedOut, LogoutFails, InFlight
<1>2. CASE SignedIn(r)
  <2>1. /\ user' \in [Tabs -> Accounts \cup {NoUser}] /\ where' \in [Tabs -> Places]
        /\ submitting' \in [Tabs -> Requests \cup {NoRequest}]
        /\ req' \in [Requests -> Reqs] /\ GuardsHold' /\ FormsWait' /\ AnswersAreAwaited'
    <3>1. Becomes(r, req[r].account, "app") /\ Over(r) /\ UNCHANGED <<loading, me>>
      BY <1>2 DEF SignedIn
    <3>2. req[r].account \in Accounts \cup {NoUser} /\ "app" \in Places
      BY <1>1 DEF Reqs, Places
    <3>. QED  BY <1>1, <3>1, <3>2, BecomesType
  <2>2. /\ cookie' = r /\ behind' \subseteq Tabs
        /\ sessions' = sessions /\ csrf' = csrf /\ loading' = loading /\ me' = me
    BY <1>2 DEF SignedIn
  <2>. QED  BY <1>0, <2>1, <2>2, TypeParts DEF Ranges
<1>3. CASE ResetDone(r)
  <2>1. Becomes(r, user[req[r].tab], "login") /\ Over(r)
        /\ UNCHANGED <<sessions, cookies, loading, me, behind>>
    BY <1>3 DEF ResetDone
  <2>2. user[req[r].tab] \in Accounts \cup {NoUser} /\ "login" \in Places
    BY <1>0, <1>1 DEF Ranges, Places, GuestPlaces, Forms, Entries
  <2>3. /\ user' \in [Tabs -> Accounts \cup {NoUser}] /\ where' \in [Tabs -> Places]
        /\ submitting' \in [Tabs -> Requests \cup {NoRequest}]
        /\ req' \in [Requests -> Reqs] /\ GuardsHold' /\ FormsWait' /\ AnswersAreAwaited'
    BY <1>1, <2>1, <2>2, BecomesType
  <2>. QED  BY <1>0, <2>1, <2>3, TypeParts DEF Ranges
<1>4. CASE SignedOut(r) \/ LogoutFails(r)
  <2>1. /\ Becomes(r, NoUser, where[req[r].tab]) /\ Over(r)
        /\ UNCHANGED <<sessions, cookies, loading, me>>
        /\ behind' \in {behind, behind \cup {req[r].tab}}
    BY <1>4 DEF SignedOut, LogoutFails
  <2>2. where[req[r].tab] \in Places
    BY <1>0, <1>1 DEF Ranges
  <2>3. /\ user' \in [Tabs -> Accounts \cup {NoUser}] /\ where' \in [Tabs -> Places]
        /\ submitting' \in [Tabs -> Requests \cup {NoRequest}]
        /\ req' \in [Requests -> Reqs] /\ GuardsHold' /\ FormsWait' /\ AnswersAreAwaited'
    BY <1>1, <2>1, <2>2, BecomesType
  <2>. QED  BY <1>0, <1>1, <2>1, <2>3, TypeParts DEF Ranges
<1>. QED  BY <1>2, <1>3, <1>4

LEMMA FormTypeOK ==
    ASSUME TypeOK, NEW r \in Requests, ForgotDone(r) \/ FormFails(r)
    PROVE  TypeOK'
<1> USE DEF cookies
<1>0. Ranges /\ GuardsHold /\ FormsWait /\ AnswersAreAwaited
  BY TypeParts
<1>1. /\ req' \in [Requests -> Reqs] /\ req'[r].tab = NoTab /\ req'[r].at = "over"
      /\ \A s \in Requests : s # r => req'[s] = req[s]
  <2>1. Over(r)
    BY DEF ForgotDone, FormFails
  <2>. QED  BY <1>0, <2>1, OverReq
<1>2. UNCHANGED <<sessions, cookies, user, loading, me, behind>>
  BY DEF ForgotDone, FormFails
<1>3. /\ where' \in [Tabs -> Places]
      /\ submitting' \in [Tabs -> Requests \cup {NoRequest}]
      /\ \A x \in Tabs : submitting'[x] = IF submitting[x] = r THEN NoRequest ELSE submitting[x]
      /\ \A x \in Tabs : where'[x] = where[x] \/ (submitting[x] = r /\ where'[x] = "sent")
  <2>1. CASE ForgotDone(r)
    <3>1. req[r] \in Reqs /\ req[r].tab \in Tabs
      BY <1>0, <2>1 DEF Ranges, Reqs, AnswersAreAwaited, ForgotDone
    <3>2. \A x \in Tabs : submitting[x] = r => x = req[r].tab
      BY <1>0, SignInAssumption DEF FormsWait
    <3>3. /\ where' = [where EXCEPT ![req[r].tab] =
                          IF submitting[req[r].tab] = r THEN "sent" ELSE where[req[r].tab]]
          /\ submitting' = [submitting EXCEPT ![req[r].tab] =
                               IF submitting[req[r].tab] = r THEN NoRequest
                               ELSE submitting[req[r].tab]]
      BY <2>1 DEF ForgotDone
    <3>4. "sent" \in Places /\ where \in [Tabs -> Places]
          /\ submitting \in [Tabs -> Requests \cup {NoRequest}]
      BY <1>0 DEF Ranges, Places, GuestPlaces
    <3>5. where' \in [Tabs -> Places] /\ submitting' \in [Tabs -> Requests \cup {NoRequest}]
      BY <3>1, <3>3, <3>4
    <3>6. \A x \in Tabs : submitting'[x] = IF submitting[x] = r THEN NoRequest ELSE submitting[x]
      BY <3>1, <3>2, <3>3, <3>4
    <3>7. \A x \in Tabs : where'[x] = where[x] \/ (submitting[x] = r /\ where'[x] = "sent")
      <4>1. ASSUME NEW x \in Tabs, x # req[r].tab
            PROVE  where'[x] = where[x]
        BY <3>3, <3>4, <4>1
      <4>2. where'[req[r].tab] = IF submitting[req[r].tab] = r THEN "sent"
                                 ELSE where[req[r].tab]
        BY <3>1, <3>3, <3>4
      <4>. QED  BY <4>1, <4>2
    <3>. QED  BY <3>5, <3>6, <3>7
  <2>2. CASE FormFails(r)
    <3>1. where' = where /\ submitting' = [t \in Tabs |-> IF submitting[t] = r THEN NoRequest
                                                         ELSE submitting[t]]
      BY <2>2 DEF FormFails
    <3>2. where \in [Tabs -> Places] /\ submitting \in [Tabs -> Requests \cup {NoRequest}]
      BY <1>0 DEF Ranges
    <3>3. submitting' \in [Tabs -> Requests \cup {NoRequest}]
      BY <3>1, <3>2
    <3>4. \A x \in Tabs : submitting'[x] = IF submitting[x] = r THEN NoRequest ELSE submitting[x]
      BY <3>1
    <3>5. where' \in [Tabs -> Places] /\ \A x \in Tabs : where'[x] = where[x]
      BY <3>1, <3>2
    <3>. QED  BY <3>3, <3>4, <3>5
  <2>. QED  BY <2>1, <2>2
<1>4. GuardsHold'
  <2>1. \A x \in Tabs : submitting[x] = r => where[x] \in GuestPlaces
    BY <1>0, SignInAssumption DEF FormsWait, GuestPlaces
  <2>. QED  BY <1>0, <1>2, <1>3, <2>1 DEF GuardsHold, GuestPlaces
<1>5. FormsWait'
  <2>1. ASSUME NEW x \in Tabs, submitting'[x] # NoRequest
        PROVE  /\ req'[submitting'[x]].at \in InFlight /\ req'[submitting'[x]].tab = x
               /\ where'[x] \in Forms /\ ~loading'[x]
    <3>1. submitting'[x] = submitting[x] /\ submitting[x] # r /\ where'[x] = where[x]
      BY <1>3, <2>1
    <3>2. submitting[x] \in Requests
      BY <1>0, <2>1, <3>1 DEF Ranges
    <3>. QED  BY <1>0, <1>1, <1>2, <2>1, <3>1, <3>2 DEF FormsWait
  <2>2. ASSUME NEW x \in Tabs, loading'[x]
        PROVE  /\ user'[x] = NoUser
               /\ \A s \in Requests : req'[s].tab = x => req'[s].at \notin InFlight
    BY <1>0, <1>1, <1>2, <2>2, SignInAssumption DEF FormsWait
  <2>3. \A x \in Tabs : loading'[x] <=> me'[x].at # "idle"
    BY <1>0, <1>2 DEF FormsWait
  <2>. QED  BY <2>1, <2>2, <2>3 DEF FormsWait
<1>6. AnswersAreAwaited'
  BY <1>0, <1>1 DEF AnswersAreAwaited
<1>. QED  BY <1>0, <1>1, <1>2, <1>3, <1>4, <1>5, <1>6, TypeParts DEF Ranges

\* The interceptor and the server.
LEMMA ServerTypeOK ==
    ASSUME TypeOK, NEW r \in Requests,
           TokenArrives(r) \/ TokenUsed(r) \/ Served(r) \/ Refused(r) \/ Fails(r) \/ SessionEnds(r)
    PROVE  TypeOK'
<1> USE DEF cookies
<1>0. /\ Ranges /\ GuardsHold /\ FormsWait /\ AnswersAreAwaited
      /\ req \in [Requests -> Reqs] /\ req[r] \in Reqs
  <2>1. Ranges /\ GuardsHold /\ FormsWait /\ AnswersAreAwaited
    BY TypeParts
  <2>. QED  BY <2>1 DEF Ranges
<1>1. ASSUME NEW place \in {"done", "failed"}, To(r, place), req[r].at \in InFlight,
             sessions' \subseteq Requests, behind' \subseteq Tabs,
             UNCHANGED <<cookies, user, loading, me, where, submitting>>
      PROVE  TypeOK'
  <2>1. /\ req' \in [Requests -> Reqs]
        /\ \A s \in Requests : s # r => req'[s] = req[s]
        /\ req'[r].tab = req[r].tab
        /\ req'[r].tab # NoTab => req'[r].at = place
        /\ req'[r].tab = NoTab => req'[r].at = "over"
        /\ place \in InFlight
    BY <1>0, <1>1, ToReq DEF InFlight
  <2>2. UNCHANGED <<user, loading, me, where, submitting>>
    BY <1>1
  <2>3. GuardsHold' /\ FormsWait' /\ AnswersAreAwaited'
    <3>1. CASE req[r].tab = NoTab
      BY <2>1, <2>2, <3>1, PagesStay
    <3>2. CASE req[r].tab # NoTab
      BY <1>1, <2>1, <2>2, <3>2, PagesStay
    <3>. QED  BY <3>1, <3>2
  <2>. QED  BY <1>0, <1>1, <2>1, <2>3, TypeParts DEF Ranges
<1>2. CASE TokenArrives(r)
  <2>1. /\ req' = [req EXCEPT ![r].at = "issued"] /\ req[r].at = "token" /\ csrf' = r
        /\ UNCHANGED <<sessions, cookie, behind>>
        /\ UNCHANGED <<user, loading, me, where, submitting>>
    BY <1>2 DEF TokenArrives
  <2>2. /\ req' \in [Requests -> Reqs] /\ \A s \in Requests : s # r => req'[s] = req[s]
        /\ req'[r].tab = req[r].tab /\ req'[r].at = "issued" /\ req[r].tab # NoTab
    BY <1>0, <2>1 DEF Reqs, InFlight, AnswersAreAwaited
  <2>3. GuardsHold' /\ FormsWait' /\ AnswersAreAwaited'
    BY <2>1, <2>2, PagesStay DEF InFlight
  <2>. QED  BY <1>0, <2>1, <2>2, <2>3, TypeParts DEF Ranges
<1>3. CASE TokenUsed(r)
  <2>1. /\ req[r].at = "issued"
        /\ UNCHANGED <<sessions, cookies, behind>>
        /\ UNCHANGED <<user, loading, me, where, submitting>>
        /\ cookie \in Requests \cup {NoRequest}
    BY <1>0, <1>3 DEF TokenUsed, Ranges
  <2>2. PICK v \in BOOLEAN :
            req' = [req EXCEPT ![r] = [req[r] EXCEPT !.at = "sent", !.token = cookie, !.valid = v]]
    BY <1>0, <1>3 DEF TokenUsed
  <2>3. /\ req' \in [Requests -> Reqs] /\ \A s \in Requests : s # r => req'[s] = req[s]
        /\ req'[r].tab = req[r].tab /\ req'[r].at = "sent" /\ req[r].tab # NoTab
    BY <1>0, <2>1, <2>2 DEF Reqs, InFlight, AnswersAreAwaited
  <2>4. GuardsHold' /\ FormsWait' /\ AnswersAreAwaited'
    BY <2>1, <2>3, PagesStay DEF InFlight
  <2>. QED  BY <1>0, <2>1, <2>3, <2>4, TypeParts DEF Ranges
<1>4. CASE Served(r)
  <2>1. sessions' \subseteq Requests
    <3>1. sessions \subseteq Requests
      BY <1>0 DEF Ranges
    <3>2. sessions' \in {sessions \cup {r}, sessions \ OfAccount(req[r].account),
                         sessions \ {req[r].token}, sessions}
      BY <1>4 DEF Served
    <3>. QED  BY <3>1, <3>2
  <2>2. behind' \subseteq Tabs
    <3>1. behind' \in {Tabs, behind \cup (Tabs \ {req[r].tab}), behind}
      BY <1>4 DEF Served
    <3>. QED  BY <1>0, <3>1 DEF Ranges
  <2>3. To(r, "done") /\ req[r].at = "sent" /\ "sent" \in InFlight
    BY <1>4 DEF Served, InFlight
  <2>. QED  BY <1>1, <1>4, <2>1, <2>2, <2>3 DEF Served
<1>5. CASE Refused(r)
  BY <1>0, <1>1, <1>5 DEF Refused, InFlight, Ranges
<1>6. CASE Fails(r)
  BY <1>0, <1>1, <1>6 DEF Fails, InFlight, Ranges
<1>7. CASE SessionEnds(r)
  BY <1>7 DEF SessionEnds, TypeOK, GuardsHold, FormsWait, AnswersAreAwaited
<1>. QED  BY <1>2, <1>3, <1>4, <1>5, <1>6, <1>7

\* The session check of a tab.
LEMMA CheckTypeOK ==
    ASSUME TypeOK, NEW t \in Tabs, MeServed(t) \/ MeAnswers(t) \/ MeFails(t)
    PROVE  TypeOK'
<1> USE DEF cookies
<1>0. Ranges /\ GuardsHold /\ FormsWait /\ AnswersAreAwaited /\ me[t] \in Mes
  BY TypeParts DEF Ranges
<1>1. CASE MeServed(t)
  <2>1. Owner(me[t].token) \in Accounts \cup {NoUser}
    BY <1>0 DEF Owner, Ranges, Reqs
  <2>2. /\ me' = [me EXCEPT ![t] = [me[t] EXCEPT !.at = "served", !.answer = Owner(me[t].token)]]
        /\ behind' \in {behind, behind \ {t}}
        /\ UNCHANGED <<sessions, cookies, user, loading, where, submitting, req>>
    BY <1>0, <1>1 DEF MeServed, Ranges
  <2>3. /\ me' \in [Tabs -> Mes] /\ me'[t].at = "served"
        /\ \A x \in Tabs : x # t => me'[x] = me[x]
    BY <1>0, <2>1, <2>2 DEF Ranges, Mes
  <2>4. GuardsHold' /\ AnswersAreAwaited'
    BY <1>0, <2>2 DEF GuardsHold, AnswersAreAwaited
  <2>5. FormsWait'
    <3>1. me[t].at # "idle"
      BY <1>1 DEF MeServed
    <3>. QED  BY <1>0, <2>2, <2>3, <3>1 DEF FormsWait
  <2>. QED  BY <1>0, <2>2, <2>3, <2>4, <2>5, TypeParts DEF Ranges
<1>2. ASSUME NEW u \in Accounts \cup {NoUser}, Checked(t, u), behind' \subseteq Tabs,
             me[t].at # "idle"
      PROVE  TypeOK'
  <2> DEFINE to == Guarded(where[t], u)
  <2>1. to \in Places /\ (to \in GuestPlaces <=> u = NoUser)
    BY <1>0, GuardedPlace DEF Ranges
  <2>2. /\ user' = [user EXCEPT ![t] = u] /\ loading' = [loading EXCEPT ![t] = FALSE]
        /\ where' = [where EXCEPT ![t] = to] /\ me' = [me EXCEPT ![t] = Idle]
        /\ UNCHANGED <<sessions, cookies, submitting, req>>
    BY <1>0, <1>2 DEF Checked, Ranges
  <2> HIDE DEF to
  <2>3. Idle \in Mes
    BY DEF Idle, Mes
  <2>4. Ranges'
    BY <1>0, <1>2, <2>1, <2>2, <2>3 DEF Ranges
  <2>5. GuardsHold' /\ AnswersAreAwaited'
    BY <1>0, <2>1, <2>2 DEF GuardsHold, AnswersAreAwaited, Ranges
  <2>6. loading[t] /\ submitting[t] = NoRequest
    BY <1>0, <1>2 DEF FormsWait
  <2>7. FormsWait'
    BY <1>0, <2>2, <2>6 DEF FormsWait, Ranges, Idle
  <2>. QED  BY <2>4, <2>5, <2>7, TypeParts
<1>3. CASE MeAnswers(t)
  BY <1>0, <1>2, <1>3 DEF MeAnswers, Mes, Ranges
<1>4. CASE MeFails(t)
  BY <1>0, <1>2, <1>4 DEF MeFails, Ranges
<1>. QED  BY <1>1, <1>3, <1>4

\* A new request of a page that is not loading.
LEMMA SendType ==
    ASSUME TypeOK, NEW r \in Requests, NEW kind \in Forms \cup {"logout"}, NEW t \in Tabs,
           NEW a \in Accounts \cup {NoUser}, Send(r, kind, t, a), ~loading[t]
    PROVE  /\ req' \in [Requests -> Reqs] /\ req'[r].tab = t /\ req'[r].at \in InFlight
           /\ \A s \in Requests : s # r => req'[s] = req[s]
           /\ \A s \in Requests, x \in Tabs : loading[x] /\ req'[s].tab = x => req'[s].at \notin InFlight
           /\ \A x \in Tabs : submitting[x] # r
           /\ AnswersAreAwaited'
<1>0. /\ FormsWait /\ AnswersAreAwaited /\ req \in [Requests -> Reqs]
      /\ cookie \in Requests \cup {NoRequest} /\ t # NoTab
  BY TypeParts, SignInAssumption DEF Ranges
<1>1. PICK at \in {"token", "sent"} :
        req' = [req EXCEPT ![r] = [at |-> at, kind |-> kind, tab |-> t, account |-> a,
                                   token |-> cookie, valid |-> TRUE]]
  BY DEF Send
<1>2. req[r].at = "none"
  BY DEF Send
<1>3. at \in InFlight
  BY <1>1 DEF InFlight
<1>4. [at |-> at, kind |-> kind, tab |-> t, account |-> a, token |-> cookie, valid |-> TRUE] \in Reqs
  BY <1>0, <1>3 DEF Reqs
<1>5. /\ req' \in [Requests -> Reqs] /\ req'[r].tab = t /\ req'[r].at \in InFlight
      /\ \A s \in Requests : s # r => req'[s] = req[s]
  BY <1>0, <1>1, <1>3, <1>4
<1>6. \A s \in Requests, x \in Tabs : loading[x] /\ req'[s].tab = x => req'[s].at \notin InFlight
  BY <1>0, <1>5 DEF FormsWait
<1>7. \A x \in Tabs : submitting[x] # r
  BY <1>0, <1>2, SignInAssumption DEF FormsWait, InFlight
<1>8. AnswersAreAwaited'
  BY <1>0, <1>5 DEF AnswersAreAwaited
<1>. QED  BY <1>5, <1>6, <1>7, <1>8

LEMMA SubmitTypeOK ==
    ASSUME TypeOK, NEW r \in Requests, NEW t \in Tabs, NEW form \in Forms,
           NEW a \in Accounts \cup {NoUser}, Submit(r, t, form, a)
    PROVE  TypeOK'
<1>0. Ranges /\ GuardsHold /\ FormsWait /\ AnswersAreAwaited
  BY TypeParts
<1>1. ~loading[t] /\ where[t] = form /\ Send(r, form, t, a)
      /\ submitting' = [submitting EXCEPT ![t] = r]
      /\ UNCHANGED <<sessions, cookies, user, loading, me, where, behind>>
  BY DEF Submit, Usable
<1>2. /\ req' \in [Requests -> Reqs] /\ req'[r].tab = t /\ req'[r].at \in InFlight
      /\ \A s \in Requests : s # r => req'[s] = req[s]
      /\ \A s \in Requests, x \in Tabs : loading[x] /\ req'[s].tab = x => req'[s].at \notin InFlight
      /\ \A x \in Tabs : submitting[x] # r
      /\ AnswersAreAwaited'
  BY <1>1, SendType
<1>3. GuardsHold'
  BY <1>0, <1>1 DEF GuardsHold
<1>4. \A x \in Tabs : submitting'[x] = IF x = t THEN r ELSE submitting[x]
  BY <1>0, <1>1 DEF Ranges
<1>5. ASSUME NEW x \in Tabs, submitting'[x] # NoRequest
      PROVE  req'[submitting'[x]].at \in InFlight /\ req'[submitting'[x]].tab = x
  <2>1. CASE x = t
    BY <1>2, <1>4, <2>1
  <2>2. CASE x # t
    <3>1. submitting'[x] = submitting[x] /\ submitting[x] \in Requests
      BY <1>0, <1>4, <1>5, <2>2 DEF Ranges
    <3>2. req[submitting[x]].at \in InFlight /\ req[submitting[x]].tab = x
      BY <1>0, <1>5, <3>1 DEF FormsWait
    <3>. QED  BY <1>2, <2>2, <3>1, <3>2
  <2>. QED  BY <2>1, <2>2
<1>6. \A x \in Tabs : submitting'[x] # NoRequest => where'[x] \in Forms /\ ~loading'[x]
  BY <1>0, <1>1, <1>4 DEF FormsWait
<1>7. FormsWait'
  BY <1>0, <1>1, <1>2, <1>5, <1>6 DEF FormsWait
<1>. QED  BY <1>0, <1>1, <1>2, <1>3, <1>7, TypeParts DEF Ranges, cookies

LEMMA MoveTypeOK ==
    ASSUME TypeOK, NEW t \in Tabs,
           \/ \E place \in Places \ {"sent"} : Reload(t, place) \/ GoTo(t, place)
           \/ \E r \in Requests : ClickLogout(r, t)
    PROVE  TypeOK'
<1> USE DEF cookies
<1>0. Ranges /\ GuardsHold /\ FormsWait /\ AnswersAreAwaited /\ t # NoTab
  BY TypeParts, SignInAssumption
<1>1. ASSUME NEW r \in Requests, ClickLogout(r, t)
      PROVE  TypeOK'
  <2>1. /\ ~loading[t] /\ Send(r, "logout", t, NoUser)
        /\ UNCHANGED <<sessions, cookies, user, loading, me, where, submitting, behind>>
    BY <1>1 DEF ClickLogout, Usable
  <2>2. /\ req' \in [Requests -> Reqs] /\ \A s \in Requests : s # r => req'[s] = req[s]
        /\ \A s \in Requests, x \in Tabs : loading[x] /\ req'[s].tab = x => req'[s].at \notin InFlight
        /\ \A x \in Tabs : submitting[x] # r
        /\ AnswersAreAwaited'
    BY <2>1, SendType
  <2>3. GuardsHold'
    BY <1>0, <2>1 DEF GuardsHold
  <2>4. FormsWait'
    BY <1>0, <2>1, <2>2 DEF FormsWait, Ranges
  <2>. QED  BY <1>0, <2>1, <2>2, <2>3, <2>4, TypeParts DEF Ranges
<1>2. ASSUME NEW place \in Places \ {"sent"}, GoTo(t, place)
      PROVE  TypeOK'
  <2> DEFINE to == IF loading[t] THEN place ELSE Guarded(place, user[t])
  <2>1. /\ to \in Places
        /\ ~loading[t] => (to \in GuestPlaces <=> user[t] = NoUser)
    BY GuardedPlace
  <2>2. /\ where' = [where EXCEPT ![t] = to] /\ submitting' = [submitting EXCEPT ![t] = NoRequest]
        /\ UNCHANGED <<sessions, cookies, user, loading, me, req, behind>>
    BY <1>2 DEF GoTo
  <2> HIDE DEF to
  <2>3. GuardsHold' /\ AnswersAreAwaited'
    BY <1>0, <2>1, <2>2 DEF GuardsHold, AnswersAreAwaited, Ranges
  <2>4. FormsWait'
    BY <1>0, <2>2 DEF FormsWait, Ranges
  <2>. QED  BY <1>0, <2>1, <2>2, <2>3, <2>4, TypeParts DEF Ranges
<1>3. ASSUME NEW place \in Places \ {"sent"}, Reload(t, place)
      PROVE  TypeOK'
  <2>1. [Idle EXCEPT !.at = "sent", !.token = cookie] \in Mes
    BY <1>0 DEF Idle, Mes, Ranges
  <2>2. /\ user' = [user EXCEPT ![t] = NoUser] /\ loading' = [loading EXCEPT ![t] = TRUE]
        /\ me' = [me EXCEPT ![t] = [Idle EXCEPT !.at = "sent", !.token = cookie]]
        /\ where' = [where EXCEPT ![t] = place]
        /\ submitting' = [submitting EXCEPT ![t] = NoRequest]
        /\ UNCHANGED <<sessions, cookies, behind>>
    BY <1>3 DEF Reload
  <2>3. ASSUME NEW r \in Requests
        PROVE  /\ req'[r] \in Reqs
               /\ req[r].tab # t => req'[r] = req[r]
               /\ req[r].tab = t => req'[r].tab = NoTab /\ req'[r].at \in {"sent", "over"}
    <3>1. req \in [Requests -> Reqs]
      BY <1>0 DEF Ranges
    <3>2. req'[r] = IF req[r].tab # t THEN req[r]
                    ELSE IF req[r].at = "sent" THEN [req[r] EXCEPT !.tab = NoTab]
                    ELSE Forgotten(r)
      BY <1>3 DEF Reload
    <3>3. [req[r] EXCEPT !.tab = NoTab] \in Reqs
          /\ [req[r] EXCEPT !.tab = NoTab].tab = NoTab
          /\ [req[r] EXCEPT !.tab = NoTab].at = req[r].at
      BY <3>1 DEF Reqs
    <3>. QED  BY <3>1, <3>2, <3>3, ForgottenReq
  <2>4. req' \in [Requests -> Reqs]
    <3>1. req' = [r \in Requests |-> req'[r]]
      BY <1>3 DEF Reload
    <3>. QED  BY <2>3, <3>1
  <2>5. Ranges'
    BY <1>0, <2>1, <2>2, <2>4 DEF Ranges
  <2>6. GuardsHold'
    BY <1>0, <2>2 DEF GuardsHold, Ranges
  <2>7. AnswersAreAwaited'
    BY <1>0, <2>3 DEF AnswersAreAwaited
  <2>8. \A x \in Tabs : loading'[x] <=> me'[x].at # "idle"
    BY <1>0, <2>2 DEF FormsWait, Ranges, Idle
  <2>9. ASSUME NEW x \in Tabs, loading'[x]
        PROVE  /\ user'[x] = NoUser
               /\ \A s \in Requests : req'[s].tab = x => req'[s].at \notin InFlight
    <3>1. user'[x] = NoUser
      BY <1>0, <2>2, <2>9 DEF FormsWait, Ranges
    <3>2. ASSUME NEW s \in Requests, req'[s].tab = x
          PROVE  req'[s].at \notin InFlight
      <4>1. req[s].tab # t /\ req'[s] = req[s] /\ x # t
        BY <2>3, <3>2, SignInAssumption
      <4>2. loading[x]
        BY <1>0, <2>2, <2>9, <4>1 DEF Ranges
      <4>. QED  BY <1>0, <3>2, <4>1, <4>2 DEF FormsWait
    <3>. QED  BY <3>1, <3>2
  <2>10. ASSUME NEW x \in Tabs, submitting'[x] # NoRequest
         PROVE  /\ req'[submitting'[x]].at \in InFlight /\ req'[submitting'[x]].tab = x
                /\ where'[x] \in Forms /\ ~loading'[x]
    <3>1. x # t /\ submitting'[x] = submitting[x] /\ submitting[x] \in Requests
      BY <1>0, <2>2, <2>10 DEF Ranges
    <3>2. req'[submitting[x]] = req[submitting[x]]
      BY <1>0, <2>3, <2>10, <3>1 DEF FormsWait
    <3>. QED  BY <1>0, <2>2, <2>10, <3>1, <3>2 DEF FormsWait, Ranges
  <2>. QED  BY <2>5, <2>6, <2>7, <2>8, <2>9, <2>10, TypeParts DEF FormsWait
<1>. QED  BY <1>1, <1>2, <1>3

LEMMA StepTypeOK == TypeOK /\ [Next]_vars => TypeOK'
<1> SUFFICES ASSUME TypeOK, [Next]_vars
             PROVE  TypeOK'
  OBVIOUS
<1>1. ASSUME NEW t \in Tabs, NEW r \in Requests,
             SubmitLogin(r, t) \/ SubmitRegister(r, t) \/ SubmitReset(r, t) \/ SubmitForgot(r, t)
      PROVE  TypeOK'
  <2>1. \E form \in Forms, a \in Accounts \cup {NoUser} : Submit(r, t, form, a)
    BY <1>1 DEF SubmitLogin, SubmitRegister, SubmitReset, SubmitForgot, Forms, Entries
  <2>. QED  BY <2>1, SubmitTypeOK
<1>2. CASE UNCHANGED vars
  BY <1>2 DEF vars, cookies, TypeOK, GuardsHold, FormsWait, AnswersAreAwaited
<1>. QED  BY <1>1, <1>2, AnswerTypeOK, FormTypeOK, ServerTypeOK, CheckTypeOK, MoveTypeOK DEF Next

\* The guards hold in every tab: no page of the app is on screen without a user
\* and no form with one; a form waits only for a request of its own that has yet
\* to be answered, and a page that checks its session has nothing else under way.
THEOREM TypeCorrect == Spec => []TypeOK
BY InitTypeOK, StepTypeOK, PTL DEF Spec

-----------------------------------------------------------------------------
(* Whose requests a tab sends.                                             *)

\* The cookie is of a sign-in that was answered; a session check of a tab that
\* has missed nothing carries it, and was answered by its owner.
CookieInv ==
    /\ TypeOK
    /\ cookie # NoRequest => req[cookie].at = "over"
    /\ \A t \in Tabs \ behind :
          /\ me[t].at # "idle" => me[t].token = cookie
          /\ me[t].at = "served" => Owner(cookie) \in {me[t].answer, NoUser}
    /\ RequestsAreOfUser

\* The owner of the cookie is the same, or its session has ended.
OwnerStays == Owner(cookie)' \in {Owner(cookie), NoUser}

\* What a step that leaves the cookie may do to tab t.
TabMoves(t) ==
    /\ \/ t \notin behind /\ me'[t] = me[t]
       \/ me'[t].at = "idle"
       \/ me'[t].at = "sent" /\ me'[t].token = cookie
       \/ me'[t].at = "served" /\ me'[t].token = cookie /\ me'[t].answer = Owner(cookie)
    /\ \/ t \notin behind /\ user'[t] = user[t]
       \/ user'[t] = NoUser
       \/ t \notin behind /\ me[t].at = "served" /\ user'[t] = me[t].answer

LEMMA InitCookieInv == Init => CookieInv
<1>1. Init => TypeOK
  BY InitTypeOK
<1>2. ASSUME Init, NEW t \in Tabs
      PROVE  me[t].at = "sent" /\ me[t].token = cookie
  BY <1>2 DEF Init, Idle
<1>. QED  BY <1>1, <1>2 DEF Init, CookieInv, RequestsAreOfUser

LEMMA CookieKept ==
    ASSUME CookieInv, TypeOK', cookie' = cookie, OwnerStays,
           \A t \in Tabs \ behind' : TabMoves(t),
           cookie # NoRequest => req'[cookie].at = "over"
    PROVE  CookieInv'
<1>1. ASSUME NEW t \in Tabs \ behind'
      PROVE  /\ me'[t].at # "idle" => me'[t].token = cookie
             /\ me'[t].at = "served" => Owner(cookie)' \in {me'[t].answer, NoUser}
             /\ user'[t] # NoUser => Owner(cookie)' \in {user'[t], NoUser}
  <2>1. TabMoves(t)
    BY <1>1
  <2>. QED  BY <2>1 DEF TabMoves, OwnerStays, CookieInv, RequestsAreOfUser
<1>. QED  BY <1>1 DEF CookieInv, RequestsAreOfUser

\* The session that the cookie names is served to nobody a second time.
LEMMA OwnerKept ==
    ASSUME CookieInv, TypeOK', cookie' = cookie,
           cookie \in Requests /\ cookie \in sessions' =>
              cookie \in sessions /\ req'[cookie].account = req[cookie].account
    PROVE  OwnerStays
<1>1. sessions' \subseteq Requests /\ cookie \in Requests \cup {NoRequest}
  BY DEF CookieInv, TypeOK
<1>2. CASE cookie \in Requests
  BY <1>2 DEF OwnerStays, Owner
<1>3. CASE cookie = NoRequest
  BY <1>1, <1>3, SignInAssumption DEF OwnerStays, Owner
<1>. QED  BY <1>1, <1>2, <1>3

\* Steps of requests, but for a sign-in.
LEMMA RequestCookieInv ==
    ASSUME CookieInv, TypeOK', NEW r \in Requests,
           \/ TokenArrives(r) \/ TokenUsed(r) \/ Served(r) \/ Refused(r) \/ Fails(r)
           \/ ForgotDone(r) \/ ResetDone(r) \/ SignedOut(r) \/ LogoutFails(r) \/ FormFails(r)
           \/ SessionEnds(r)
    PROVE  CookieInv'
<1> USE DEF cookies
<1>0. /\ TypeOK /\ Ranges /\ FormsWait /\ req \in [Requests -> Reqs]
      /\ cookie # NoRequest => cookie \in Requests /\ req[cookie].at = "over"
  BY TypeParts DEF CookieInv, Ranges
<1>1. cookie' = cookie /\ me' = me
  BY DEF TokenArrives, TokenUsed, Served, Refused, Fails, ForgotDone, ResetDone, SignedOut,
         LogoutFails, FormFails, SessionEnds
<1>2. behind \subseteq behind'
  <2>1. CASE Served(r)
    <3>1. behind' \in {Tabs, behind \cup (Tabs \ {req[r].tab}), behind}
      BY <2>1 DEF Served
    <3>. QED  BY <1>0, <3>1 DEF Ranges
  <2>2. CASE ~Served(r)
    BY <1>0, <2>2 DEF TokenArrives, TokenUsed, Refused, Fails, ForgotDone, ResetDone, SignedOut,
                      LogoutFails, FormFails, SessionEnds, Ranges
  <2>. QED  BY <2>1, <2>2
<1>3. \A t \in Tabs : user'[t] \in {user[t], NoUser}
  <2>1. CASE ResetDone(r)
    BY <1>0, <2>1 DEF ResetDone, Becomes, Ranges
  <2>2. CASE SignedOut(r) \/ LogoutFails(r)
    BY <1>0, <2>2 DEF SignedOut, LogoutFails, Becomes, Ranges
  <2>3. CASE ~(ResetDone(r) \/ SignedOut(r) \/ LogoutFails(r))
    BY <2>3 DEF TokenArrives, TokenUsed, Served, Refused, Fails, ForgotDone, FormFails, SessionEnds
  <2>. QED  BY <2>1, <2>2, <2>3
<1>4. ASSUME NEW s \in Requests, req[s].at = "over"
      PROVE  req'[s] = req[s] /\ (s \in sessions' => s \in sessions)
  <2>1. CASE TokenArrives(r)
    BY <1>0, <1>4, <2>1 DEF TokenArrives
  <2>2. CASE TokenUsed(r)
    BY <1>0, <1>4, <2>2 DEF TokenUsed
  <2>3. CASE Served(r)
    <3>1. To(r, "done") /\ req[r].at = "sent" /\ s # r
      BY <1>4, <2>3 DEF Served
    <3>2. sessions' \in {sessions \cup {r}, sessions \ OfAccount(req[r].account),
                         sessions \ {req[r].token}, sessions}
      BY <2>3 DEF Served
    <3>. QED  BY <1>0, <3>1, <3>2, ToReq DEF InFlight
  <2>4. CASE Refused(r) \/ Fails(r)
    <3>1. To(r, "failed") /\ req[r].at \in {"token", "sent", "done"} /\ s # r /\ sessions' = sessions
      BY <1>4, <2>4 DEF Refused, Fails
    <3>. QED  BY <1>0, <3>1, ToReq DEF InFlight
  <2>5. CASE ForgotDone(r) \/ ResetDone(r) \/ SignedOut(r) \/ LogoutFails(r) \/ FormFails(r)
    <3>1. Over(r) /\ req[r].at \in {"done", "failed"} /\ s # r /\ sessions' = sessions
      BY <1>4, <2>5 DEF ForgotDone, ResetDone, SignedOut, LogoutFails, FormFails
    <3>. QED  BY <1>0, <3>1, OverReq
  <2>6. CASE SessionEnds(r)
    BY <2>6 DEF SessionEnds
  <2>. QED  BY <2>1, <2>2, <2>3, <2>4, <2>5, <2>6
<1>5. OwnerStays
  BY <1>0, <1>1, <1>4, OwnerKept, SignInAssumption
<1>6. \A t \in Tabs \ behind' : TabMoves(t)
  BY <1>1, <1>2, <1>3 DEF TabMoves
<1>7. cookie # NoRequest => req'[cookie].at = "over"
  BY <1>0, <1>4
<1>. QED  BY <1>1, <1>5, <1>6, <1>7, CookieKept

\* A sign-in: the tabs that share the cookie are behind, and its own tab, which
\* checks no session, is of the new account.
LEMMA SignedInCookieInv ==
    ASSUME CookieInv, TypeOK', NEW r \in Requests, SignedIn(r)
    PROVE  CookieInv'
<1>0. TypeOK /\ Ranges /\ FormsWait /\ AnswersAreAwaited /\ req[r] \in Reqs
  BY TypeParts DEF CookieInv, Ranges
<1>1. /\ req[r].at = "done" /\ cookie' = r /\ sessions' = sessions /\ me' = me
      /\ Becomes(r, req[r].account, "app") /\ Over(r)
      /\ behind' = Tabs \ (IF r \in sessions THEN {req[r].tab} ELSE {})
  BY DEF SignedIn
<1>2. req'[r].at = "over" /\ req'[r].account = req[r].account
  BY <1>0, <1>1, OverReq
<1>3. ASSUME NEW t \in Tabs \ behind'
      PROVE  me'[t].at = "idle" /\ user'[t] = Owner(cookie)'
  <2>1. t = req[r].tab /\ r \in sessions
    BY <1>1
  <2>2. me[t].at = "idle"
    BY <1>0, <1>1, <2>1 DEF FormsWait, InFlight
  <2>3. user'[t] = req[r].account
    BY <1>0, <1>1, <2>1 DEF Becomes, Ranges
  <2>. QED  BY <1>1, <1>2, <2>1, <2>2, <2>3 DEF Owner
<1>. QED  BY <1>1, <1>2, <1>3 DEF CookieInv, RequestsAreOfUser

\* Steps of tabs.
LEMMA TabCookieInv ==
    ASSUME CookieInv, TypeOK', NEW t \in Tabs,
           \/ MeServed(t) \/ MeAnswers(t) \/ MeFails(t)
           \/ \E place \in Places \ {"sent"} : Reload(t, place) \/ GoTo(t, place)
           \/ \E r \in Requests :
                 \/ SubmitLogin(r, t) \/ SubmitRegister(r, t) \/ SubmitReset(r, t)
                 \/ SubmitForgot(r, t) \/ ClickLogout(r, t)
    PROVE  CookieInv'
<1> USE DEF cookies
<1>0. /\ TypeOK /\ Ranges /\ FormsWait /\ req \in [Requests -> Reqs]
      /\ cookie # NoRequest => cookie \in Requests /\ req[cookie].at = "over"
  BY TypeParts DEF CookieInv, Ranges
<1>1. ASSUME UNCHANGED <<sessions, cookie, req>>, \A x \in Tabs \ behind' : TabMoves(x)
      PROVE  CookieInv'
  <2>1. OwnerStays
    BY <1>1, OwnerKept
  <2>. QED  BY <1>0, <1>1, <2>1, CookieKept
<1>2. CASE MeServed(t)
  <2>1. /\ me' = [me EXCEPT ![t] = [me[t] EXCEPT !.at = "served", !.answer = Owner(me[t].token)]]
        /\ behind' = IF me[t].token = cookie THEN behind \ {t} ELSE behind
        /\ me[t].at = "sent" /\ me[t] \in Mes
        /\ UNCHANGED <<sessions, cookie, user, req>>
    BY <1>0, <1>2 DEF MeServed, Ranges
  <2>2. user[t] = NoUser
    BY <1>0, <2>1 DEF FormsWait
  <2>3. ASSUME NEW x \in Tabs \ behind'
        PROVE  TabMoves(x)
    <3>1. CASE x = t
      <4>1. me[t].token = cookie
        BY <2>1, <2>3, <3>1 DEF CookieInv
      <4>2. me'[t].at = "served" /\ me'[t].token = cookie /\ me'[t].answer = Owner(cookie)
        BY <1>0, <2>1, <4>1 DEF Ranges, Mes
      <4>. QED  BY <2>1, <2>2, <3>1, <4>2 DEF TabMoves
    <3>2. CASE x # t
      BY <1>0, <2>1, <2>3, <3>2 DEF TabMoves, Ranges
    <3>. QED  BY <3>1, <3>2
  <2>. QED  BY <1>1, <2>1, <2>3
<1>3. CASE MeAnswers(t) \/ MeFails(t)
  <2>1. PICK u \in {me[t].answer, NoUser} :
            /\ Checked(t, u) /\ behind \subseteq behind' /\ me[t].at # "idle"
            /\ u = NoUser \/ me[t].at = "served"
    BY <1>3 DEF MeAnswers, MeFails
  <2>2. ASSUME NEW x \in Tabs \ behind'
        PROVE  TabMoves(x)
    <3>1. CASE x = t
      <4>1. me'[t].at = "idle" /\ user'[t] = u
        BY <1>0, <2>1 DEF Checked, Ranges, Idle
      <4>. QED  BY <2>1, <2>2, <3>1, <4>1 DEF TabMoves
    <3>2. CASE x # t
      BY <1>0, <2>1, <2>2, <3>2 DEF Checked, TabMoves, Ranges
    <3>. QED  BY <3>1, <3>2
  <2>. QED  BY <1>1, <2>1, <2>2 DEF Checked
<1>4. ASSUME NEW place, GoTo(t, place)
      PROVE  CookieInv'
  BY <1>1, <1>4 DEF GoTo, TabMoves
<1>5. ASSUME NEW place, Reload(t, place)
      PROVE  CookieInv'
  <2>1. /\ user' = [user EXCEPT ![t] = NoUser]
        /\ me' = [me EXCEPT ![t] = [Idle EXCEPT !.at = "sent", !.token = cookie]]
        /\ UNCHANGED <<sessions, cookie, behind>>
    BY <1>5 DEF Reload
  <2>2. \A x \in Tabs \ behind' : TabMoves(x)
    BY <1>0, <2>1 DEF TabMoves, Ranges, Idle
  <2>3. ASSUME NEW s \in Requests, req[s].at = "over"
        PROVE  req'[s].account = req[s].account /\ req'[s].at = "over"
    <3>1. req'[s] \in {req[s], Forgotten(s)}
      BY <1>5, <2>3 DEF Reload
    <3>. QED  BY <1>0, <2>3, <3>1, ForgottenReq
  <2>4. OwnerStays
    BY <1>0, <2>1, <2>3, OwnerKept, SignInAssumption
  <2>. QED  BY <1>0, <2>1, <2>2, <2>3, <2>4, CookieKept
<1>6. ASSUME NEW r \in Requests, NEW kind, NEW a, Send(r, kind, t, a),
             UNCHANGED <<sessions, cookie, user, me, behind>>
      PROVE  CookieInv'
  <2>1. \A s \in Requests : req[s].at = "over" => req'[s] = req[s]
    BY <1>0, <1>6 DEF Send
  <2>2. OwnerStays
    BY <1>0, <1>6, <2>1, OwnerKept, SignInAssumption
  <2>3. \A x \in Tabs \ behind' : TabMoves(x)
    BY <1>6 DEF TabMoves
  <2>. QED  BY <1>0, <1>6, <2>1, <2>2, <2>3, CookieKept
<1>7. ASSUME NEW r \in Requests, ClickLogout(r, t)
      PROVE  CookieInv'
  BY <1>6, <1>7 DEF ClickLogout
<1>8. ASSUME NEW r \in Requests,
             SubmitLogin(r, t) \/ SubmitRegister(r, t) \/ SubmitReset(r, t) \/ SubmitForgot(r, t)
      PROVE  CookieInv'
  <2>1. PICK form, a : Submit(r, t, form, a)
    BY <1>8 DEF SubmitLogin, SubmitRegister, SubmitReset, SubmitForgot
  <2>. QED  BY <1>6, <2>1 DEF Submit
<1>. QED  BY <1>2, <1>3, <1>4, <1>5, <1>7, <1>8

LEMMA StepCookieInv == CookieInv /\ [Next]_vars => CookieInv'
<1> SUFFICES ASSUME CookieInv, [Next]_vars
             PROVE  CookieInv'
  OBVIOUS
<1>1. TypeOK'
  BY StepTypeOK DEF CookieInv
<1>2. CASE UNCHANGED vars
  BY <1>1, <1>2 DEF vars, cookies, CookieInv, RequestsAreOfUser, Owner
<1>. QED  BY <1>1, <1>2, RequestCookieInv, SignedInCookieInv, TabCookieInv DEF Next

\* A tab that has missed no change of the session never sends a request as an
\* account other than the one it shows, however its sign-ins overlap.
THEOREM RequestsOfUser == Spec => []RequestsAreOfUser
<1>1. CookieInv => RequestsAreOfUser
  BY DEF CookieInv
<1>. QED  BY <1>1, InitCookieInv, StepCookieInv, PTL DEF Spec
-----------------------------------------------------------------------------
(* What a tab that waits for nothing shows.                                *)

\* A log-out of tab t that has, or may have, ended the session of the cookie.
Leaves(r, t) ==
    /\ req[r].tab = t /\ req[r].kind = "logout" /\ req[r].token = cookie
    /\ req[r].at \in {"done", "failed"}

\* A request carries a cookie whose sign-in is over, and no log-out that was
\* served leaves the session it carried.
TokensInv ==
    \A r \in Requests :
        /\ req[r].at \in InFlight /\ req[r].token # NoRequest =>
              req[req[r].token].at = "over"
        /\ req[r].at = "done" /\ req[r].kind = "logout" => req[r].token \notin sessions

\* A session check was answered by the owner of the cookie, and a tab that shows
\* anybody else is about to be told by a log-out of its own.
TabIsTrue(t) ==
    /\ me[t].at = "served" => me[t].answer = Owner(cookie)
    /\ loading[t] \/ user[t] = Owner(cookie) \/ \E r \in Requests : Leaves(r, t)

QuietInv ==
    /\ CookieInv /\ TokensInv
    /\ \A t \in Tabs \ behind : TabIsTrue(t)

\* What a step may do to the requests and to the sessions they name.
RequestsMove ==
    /\ \A s \in Requests : req[s].at = "over" =>
          req'[s].at = "over" /\ req'[s].account = req[s].account
    /\ \A s \in Requests : req'[s].at \in InFlight =>
          \/ req'[s].token = cookie
          \/ req[s].at \in InFlight /\ req'[s].token = req[s].token
    /\ \A s \in Requests : req'[s].at = "done" /\ req'[s].kind = "logout" =>
          \/ req[s].at = "done" /\ req[s].kind = "logout" /\ req'[s].token = req[s].token
          \/ req'[s].token \notin sessions'
    /\ \A s \in sessions' : s \in sessions \/ req[s].at # "over"

LEMMA InitQuietInv == Init => QuietInv
<1> SUFFICES ASSUME Init
             PROVE  QuietInv
  OBVIOUS
<1>1. CookieInv
  BY InitCookieInv
<1>2. TokensInv
  BY DEF Init, TokensInv, NotSent, InFlight
<1>3. \A t \in Tabs : TabIsTrue(t)
  BY DEF Init, TabIsTrue, Idle
<1>. QED  BY <1>1, <1>2, <1>3 DEF QuietInv

\* A step in which one request moves, and no session begins but its own.
LEMMA OneMoves ==
    ASSUME NEW r \in Requests, req[r].at # "over", sessions' \subseteq sessions \cup {r},
           \A s \in Requests : s # r => req'[s] = req[s],
           req'[r].at \in InFlight =>
              \/ req'[r].token = cookie
              \/ req[r].at \in InFlight /\ req'[r].token = req[r].token,
           req'[r].at = "done" /\ req'[r].kind = "logout" => req'[r].token \notin sessions'
    PROVE  RequestsMove
BY DEF RequestsMove

LEMMA ToMoves ==
    ASSUME Ranges, NEW r \in Requests, NEW place \in InFlight, To(r, place)
    PROVE  /\ req[r].tab = NoTab => req'[r].at = "over"
           /\ req[r].tab # NoTab => /\ req'[r].at = place /\ req'[r].kind = req[r].kind
                                    /\ req'[r].tab = req[r].tab
                                    /\ req'[r].token = req[r].token
<1>1. req \in [Requests -> Reqs]
  BY DEF Ranges
<1>2. CASE req[r].tab = NoTab
  BY <1>2, ToReq
<1>3. CASE req[r].tab # NoTab
  <2>1. req' = [req EXCEPT ![r] = [req[r] EXCEPT !.at = place]]
    BY <1>1, <1>3 DEF To
  <2>. QED  BY <1>1, <1>3, <2>1 DEF Reqs
<1>. QED  BY <1>2, <1>3

LEMMA StepRequestsMove ==
    ASSUME TypeOK, Next
    PROVE  RequestsMove
<1> USE DEF cookies
<1>0. /\ Ranges /\ req \in [Requests -> Reqs] /\ InFlight = {"token", "issued", "sent", "done", "failed"}
  BY TypeParts DEF Ranges, InFlight
<1>1. ASSUME UNCHANGED req, sessions' \subseteq sessions
      PROVE  RequestsMove
  BY <1>0, <1>1 DEF RequestsMove
<1>2. ASSUME NEW r \in Requests, NEW place \in {"done", "failed"}, To(r, place),
             req[r].at \in InFlight, sessions' \subseteq sessions \cup {r},
             place = "done" /\ req[r].kind = "logout" => req[r].token \notin sessions'
      PROVE  RequestsMove
  <2>1. place \in InFlight
    BY <1>0, <1>2
  <2>2. /\ \A s \in Requests : s # r => req'[s] = req[s]
        /\ req'[r].at \in {"over", place}
        /\ req'[r].at # "over" => req'[r].token = req[r].token /\ req'[r].kind = req[r].kind
    BY <1>0, <1>2, <2>1, ToReq, ToMoves
  <2>. QED  BY <1>0, <1>2, <2>2, OneMoves
<1>3. ASSUME NEW r \in Requests, Over(r), req[r].at \in {"done", "failed"}, sessions' = sessions
      PROVE  RequestsMove
  BY <1>0, <1>3, OverReq, OneMoves
<1>4. ASSUME NEW r \in Requests, NEW kind, NEW t, NEW a, Send(r, kind, t, a), sessions' = sessions
      PROVE  RequestsMove
  <2>1. /\ req[r].at = "none" /\ req'[r].token = cookie /\ req'[r].at # "done"
        /\ \A s \in Requests : s # r => req'[s] = req[s]
    BY <1>0, <1>4 DEF Send
  <2>. QED  BY <1>4, <2>1, OneMoves
<1>5. ASSUME NEW t \in Tabs, NEW place, Reload(t, place)
      PROVE  RequestsMove
  <2>1. sessions' = sessions
    BY <1>5 DEF Reload
  <2>2. ASSUME NEW s \in Requests
        PROVE  \/ req'[s] = req[s]
               \/ req[s].at = "sent" /\ req'[s] = [req[s] EXCEPT !.tab = NoTab]
               \/ req'[s] = Forgotten(s)
    BY <1>5 DEF Reload
  <2>3. ASSUME NEW s \in Requests
        PROVE  \/ req'[s].at = "over" /\ req'[s].account = req[s].account
               \/ /\ req'[s].at = req[s].at /\ req'[s].token = req[s].token
                  /\ req'[s].kind = req[s].kind /\ req'[s].account = req[s].account
    BY <1>0, <2>2, ForgottenReq DEF Reqs
  <2>. QED  BY <1>0, <2>1, <2>3 DEF RequestsMove
<1>6. ASSUME NEW r \in Requests, TokenArrives(r) \/ TokenUsed(r)
      PROVE  RequestsMove
  <2>1. /\ sessions' = sessions /\ req[r].at \in {"token", "issued"}
        /\ req'[r].at \in {"issued", "sent"}
        /\ req'[r].token \in {cookie, req[r].token}
        /\ \A s \in Requests : s # r => req'[s] = req[s]
    <3>1. CASE TokenArrives(r)
      BY <1>0, <3>1 DEF TokenArrives, Reqs
    <3>2. CASE TokenUsed(r)
      BY <1>0, <3>2 DEF TokenUsed, Reqs
    <3>. QED  BY <1>6, <3>1, <3>2
  <2>. QED  BY <1>0, <2>1, OneMoves
<1>7. ASSUME NEW r \in Requests, Served(r)
      PROVE  RequestsMove
  <2>1. req[r].at = "sent" /\ To(r, "done")
    BY <1>7 DEF Served
  <2>2. sessions' \subseteq sessions \cup {r}
    <3>1. sessions' \in {sessions \cup {r}, sessions \ OfAccount(req[r].account),
                         sessions \ {req[r].token}, sessions}
      BY <1>7 DEF Served
    <3>. QED  BY <3>1
  <2>3. req[r].kind = "logout" => req[r].token \notin sessions'
    <3>1. SUFFICES ASSUME req[r].kind = "logout"
                   PROVE  sessions' = sessions \ {req[r].token}
      OBVIOUS
    <3>. QED  BY <1>7, <3>1 DEF Served, Entries
  <2>. QED  BY <1>0, <1>2, <2>1, <2>2, <2>3
<1>8. ASSUME NEW r \in Requests, Refused(r) \/ Fails(r)
      PROVE  RequestsMove
  <2>1. To(r, "failed") /\ req[r].at \in {"token", "sent", "done"} /\ sessions' = sessions
    BY <1>8 DEF Refused, Fails
  <2>. QED  BY <1>0, <1>2, <2>1
<1>9. ASSUME NEW r \in Requests,
             \/ SignedIn(r) \/ ForgotDone(r) \/ ResetDone(r) \/ SignedOut(r) \/ LogoutFails(r)
             \/ FormFails(r)
      PROVE  RequestsMove
  BY <1>3, <1>9 DEF SignedIn, ForgotDone, ResetDone, SignedOut, LogoutFails, FormFails
<1>10. ASSUME NEW r \in Requests, SessionEnds(r)
       PROVE  RequestsMove
  BY <1>1, <1>10 DEF SessionEnds
<1>11. ASSUME NEW t \in Tabs, MeServed(t) \/ MeAnswers(t) \/ MeFails(t)
       PROVE  RequestsMove
  BY <1>1, <1>11 DEF MeServed, MeAnswers, MeFails, Checked
<1>12. ASSUME NEW t \in Tabs, NEW place, GoTo(t, place)
       PROVE  RequestsMove
  BY <1>1, <1>12 DEF GoTo
<1>13. ASSUME NEW t \in Tabs, NEW r \in Requests,
              \/ SubmitLogin(r, t) \/ SubmitRegister(r, t) \/ SubmitReset(r, t)
              \/ SubmitForgot(r, t) \/ ClickLogout(r, t)
       PROVE  RequestsMove
  <2>1. PICK kind, a : Send(r, kind, t, a) /\ sessions' = sessions
    BY <1>13 DEF SubmitLogin, SubmitRegister, SubmitReset, SubmitForgot, Submit, ClickLogout
  <2>. QED  BY <1>4, <2>1
<1>. QED  BY <1>5, <1>6, <1>7, <1>8, <1>9, <1>10, <1>11, <1>12, <1>13 DEF Next

LEMMA StepTokensInv ==
    ASSUME CookieInv, TokensInv, TypeOK', RequestsMove
    PROVE  TokensInv'
<1>0. /\ sessions' \subseteq Requests
      /\ \A r \in Requests : req[r].token \in Requests \cup {NoRequest}
      /\ cookie # NoRequest => cookie \in Requests /\ req[cookie].at = "over"
  BY DEF CookieInv, TypeOK
<1>1. ASSUME NEW r \in Requests, req'[r].at \in InFlight, req'[r].token # NoRequest
      PROVE  req'[req'[r].token].at = "over"
  <2>1. req'[r].token \in Requests /\ req[req'[r].token].at = "over"
    BY <1>0, <1>1 DEF RequestsMove, TokensInv
  <2>. QED  BY <2>1 DEF RequestsMove
<1>2. ASSUME NEW r \in Requests, req'[r].at = "done", req'[r].kind = "logout"
      PROVE  req'[r].token \notin sessions'
  <2>1. SUFFICES ASSUME req[r].at = "done", req[r].kind = "logout", req'[r].token = req[r].token,
                        req[r].token \in sessions'
                 PROVE  FALSE
    BY <1>2 DEF RequestsMove
  <2>2. req[r].token \notin sessions
    BY <2>1 DEF TokensInv
  <2>3. req[req[r].token].at = "over"
    BY <1>0, <2>1, SignInAssumption DEF TokensInv, InFlight
  <2>. QED  BY <2>1, <2>2, <2>3 DEF RequestsMove
<1>. QED  BY <1>1, <1>2 DEF TokensInv

\* A step that leaves the tab, its log-outs and the session of the cookie alone.
LEMMA TabStaysTrue ==
    ASSUME QuietInv, TypeOK', RequestsMove, NEW t \in Tabs \ behind,
           cookie' = cookie, cookie \in sessions => cookie \in sessions',
           me'[t] = me[t], loading'[t] = loading[t], user'[t] = user[t],
           \A r \in Requests : Leaves(r, t) => Leaves(r, t)'
    PROVE  TabIsTrue(t)'
<1>1. Owner(cookie)' = Owner(cookie)
  <2>1. sessions \subseteq Requests /\ sessions' \subseteq Requests
        /\ (cookie # NoRequest => cookie \in Requests /\ req[cookie].at = "over")
    BY DEF QuietInv, CookieInv, TypeOK
  <2>2. CASE cookie \in sessions
    <3>1. req'[cookie].account = req[cookie].account
      BY <2>1, <2>2, SignInAssumption DEF RequestsMove
    <3>. QED  BY <2>2, <3>1 DEF Owner
  <2>3. CASE cookie \notin sessions
    <3>1. cookie \notin sessions'
      BY <2>1, <2>3, SignInAssumption DEF RequestsMove
    <3>. QED  BY <2>3, <3>1 DEF Owner
  <2>. QED  BY <2>2, <2>3
<1>2. TabIsTrue(t)
  BY DEF QuietInv
<1>3. me'[t].at = "served" => me'[t].answer = Owner(cookie)'
  BY <1>1, <1>2 DEF TabIsTrue
<1>4. loading'[t] \/ user'[t] = Owner(cookie)' \/ \E r \in Requests : Leaves(r, t)'
  BY <1>1, <1>2 DEF TabIsTrue
<1>. QED  BY <1>3, <1>4 DEF TabIsTrue

\* A page that checks its session has no request under way.
LEMMA NotChecking ==
    ASSUME TypeOK, NEW r \in Requests, req[r].tab \in Tabs, req[r].at \in InFlight
    PROVE  ~loading[req[r].tab] /\ me[req[r].tab].at = "idle"
BY DEF TypeOK, FormsWait

\* A log-out that was served: its tab is about to be told, the others are behind.
LEMMA ServedTabs ==
    ASSUME QuietInv, TypeOK', RequestsMove, NEW r \in Requests, Served(r),
           NEW t \in Tabs \ behind'
    PROVE  TabIsTrue(t)'
<1>0. /\ TypeOK /\ Ranges /\ req \in [Requests -> Reqs] /\ "sent" \in InFlight /\ "done" \in InFlight
      /\ cookie # NoRequest => cookie \in Requests /\ req[cookie].at = "over"
  BY TypeParts DEF QuietInv, CookieInv, Ranges, InFlight
<1>1. /\ req[r].at = "sent" /\ To(r, "done")
      /\ UNCHANGED <<user, loading, me>> /\ cookie' = cookie
  BY DEF Served, cookies
<1>2. req[r].kind # "reset" /\ t \notin behind
      /\ (req[r].kind = "logout" => t = req[r].tab)
  BY <1>0 DEF Served, Ranges, Entries
<1>3. \A s \in Requests : s # r => req'[s] = req[s]
  BY <1>0, <1>1, ToReq
<1>4. CASE req[r].kind = "logout" /\ req[r].token = cookie
  <2>1. t = req[r].tab /\ req[r].tab # NoTab
    BY <1>2, <1>4, SignInAssumption
  <2>2. Leaves(r, t)'
    BY <1>0, <1>1, <1>4, <2>1, ToMoves DEF Leaves
  <2>3. me[t].at = "idle"
    BY <1>0, <1>1, <2>1, NotChecking
  <2>. QED  BY <1>1, <2>2, <2>3 DEF TabIsTrue
<1>5. CASE ~(req[r].kind = "logout" /\ req[r].token = cookie)
  <2>1. cookie \in sessions => cookie \in sessions'
    <3>1. \/ sessions' = sessions \cup {r} \/ sessions' = sessions
          \/ sessions' = sessions \ {req[r].token} /\ req[r].kind = "logout"
      BY <1>2 DEF Served, Entries
    <3>. QED  BY <1>5, <3>1
  <2>2. \A s \in Requests : Leaves(s, t) => Leaves(s, t)'
    BY <1>1, <1>3 DEF Leaves
  <2>. QED  BY <1>1, <1>2, <2>1, <2>2, TabStaysTrue
<1>. QED  BY <1>4, <1>5

\* Other steps of requests that leave the pages alone.
LEMMA MovesTabs ==
    ASSUME QuietInv, TypeOK', RequestsMove, NEW r \in Requests,
           TokenArrives(r) \/ TokenUsed(r) \/ Refused(r) \/ Fails(r),
           NEW t \in Tabs \ behind'
    PROVE  TabIsTrue(t)'
<1>0. Ranges /\ req \in [Requests -> Reqs] /\ "failed" \in InFlight
  BY TypeParts DEF QuietInv, CookieInv, Ranges, InFlight
<1>1. /\ UNCHANGED <<sessions, cookie, behind>> /\ UNCHANGED <<user, loading, me>>
  BY DEF TokenArrives, TokenUsed, Refused, Fails, cookies
<1>2. \A s \in Requests : Leaves(s, t) => Leaves(s, t)'
  <2>1. CASE TokenArrives(r)
    BY <1>0, <1>1, <2>1 DEF TokenArrives, Leaves
  <2>2. CASE TokenUsed(r)
    BY <1>0, <1>1, <2>2 DEF TokenUsed, Leaves
  <2>3. CASE Refused(r) \/ Fails(r)
    <3>1. To(r, "failed")
      BY <2>3 DEF Refused, Fails
    <3>2. /\ \A s \in Requests : s # r => req'[s] = req[s]
          /\ req[r].tab # NoTab => /\ req'[r].at = "failed" /\ req'[r].kind = req[r].kind
                                   /\ req'[r].tab = req[r].tab /\ req'[r].token = req[r].token
      BY <1>0, <3>1, ToReq, ToMoves
    <3>. QED  BY <1>1, <3>2, SignInAssumption DEF Leaves
  <2>. QED  BY <2>1, <2>2, <2>3
<1>. QED  BY <1>1, <1>2, TabStaysTrue

\* The answers: each comes to one tab, and tells it who the owner is.
LEMMA AnswerTabs ==
    ASSUME QuietInv, TypeOK', RequestsMove, NEW r \in Requests,
           \/ SignedIn(r) \/ ForgotDone(r) \/ ResetDone(r) \/ SignedOut(r) \/ LogoutFails(r)
           \/ FormFails(r),
           NEW t \in Tabs \ behind'
    PROVE  TabIsTrue(t)'
<1> USE DEF cookies
<1>0. /\ TypeOK /\ Ranges /\ AnswersAreAwaited /\ req \in [Requests -> Reqs]
      /\ "done" \in InFlight /\ "failed" \in InFlight
  BY TypeParts DEF QuietInv, CookieInv, Ranges, InFlight
<1>1. /\ Over(r) /\ req[r].at \in {"done", "failed"} /\ me' = me /\ loading' = loading
      /\ sessions' = sessions
  BY DEF SignedIn, ForgotDone, ResetDone, SignedOut, LogoutFails, FormFails
<1>2. /\ req'[r].account = req[r].account
      /\ \A s \in Requests : s # r => req'[s] = req[s]
  BY <1>0, <1>1, OverReq
<1>3. req[r].tab \in Tabs
  BY <1>0, <1>1 DEF Reqs, AnswersAreAwaited
<1>4. me[req[r].tab].at = "idle"
  BY <1>0, <1>1, <1>3, NotChecking
<1>5. ASSUME t \notin behind, cookie' = cookie, user'[t] = user[t],
             req[r].kind # "logout" \/ t # req[r].tab
      PROVE  TabIsTrue(t)'
  <2>1. \A s \in Requests : Leaves(s, t) => Leaves(s, t)'
    BY <1>2, <1>5 DEF Leaves
  <2>. QED  BY <1>1, <1>5, <2>1, TabStaysTrue
<1>6. CASE SignedIn(r)
  <2>1. /\ cookie' = r /\ Becomes(r, req[r].account, "app")
        /\ behind' = Tabs \ (IF r \in sessions THEN {req[r].tab} ELSE {})
    BY <1>6 DEF SignedIn
  <2>2. t = req[r].tab /\ r \in sessions
    BY <2>1
  <2>3. user'[t] = req[r].account
    BY <1>0, <1>3, <2>1, <2>2 DEF Becomes, Ranges
  <2>4. Owner(cookie)' = req[r].account
    BY <1>1, <1>2, <2>1, <2>2 DEF Owner
  <2>. QED  BY <1>1, <1>4, <2>2, <2>3, <2>4 DEF TabIsTrue
<1>7. CASE ForgotDone(r) \/ FormFails(r)
  <2>1. user' = user /\ cookie' = cookie /\ behind' = behind /\ req[r].kind # "logout"
    BY <1>7 DEF ForgotDone, FormFails
  <2>. QED  BY <1>5, <2>1
<1>8. CASE ResetDone(r)
  <2>1. /\ Becomes(r, user[req[r].tab], "login") /\ cookie' = cookie /\ behind' = behind
        /\ req[r].kind # "logout"
    BY <1>8 DEF ResetDone
  <2>2. user'[t] = user[t]
    BY <1>0, <1>3, <2>1 DEF Becomes, Ranges
  <2>. QED  BY <1>5, <2>1, <2>2
<1>9. CASE SignedOut(r) \/ LogoutFails(r)
  <2>1. /\ Becomes(r, NoUser, where[req[r].tab]) /\ cookie' = cookie /\ t \notin behind
        /\ t = req[r].tab => req[r].at = "done" /\ req[r].kind = "logout" /\ req[r].token = cookie
    BY <1>9 DEF SignedOut, LogoutFails
  <2>2. user' = [user EXCEPT ![req[r].tab] = NoUser]
    BY <2>1 DEF Becomes
  <2>3. CASE t = req[r].tab
    <3>1. user'[t] = NoUser
      BY <1>0, <1>3, <2>2, <2>3 DEF Ranges
    <3>2. Owner(cookie)' = NoUser
      BY <1>1, <2>1, <2>3 DEF QuietInv, TokensInv, Owner
    <3>. QED  BY <1>1, <1>4, <2>3, <3>1, <3>2 DEF TabIsTrue
  <2>4. CASE t # req[r].tab
    <3>1. user'[t] = user[t]
      BY <1>0, <2>2, <2>4 DEF Ranges
    <3>. QED  BY <1>5, <2>1, <2>4, <3>1
  <2>. QED  BY <2>3, <2>4
<1>. QED  BY <1>6, <1>7, <1>8, <1>9

\* Steps of tab x, as another tab or it sees them.
LEMMA TabTabs ==
    ASSUME QuietInv, TypeOK', RequestsMove, NEW x \in Tabs,
           \/ MeServed(x) \/ MeAnswers(x) \/ MeFails(x)
           \/ \E place \in Places \ {"sent"} : Reload(x, place) \/ GoTo(x, place)
           \/ \E r \in Requests :
                 \/ SubmitLogin(r, x) \/ SubmitRegister(r, x) \/ SubmitReset(r, x)
                 \/ SubmitForgot(r, x) \/ ClickLogout(r, x),
           NEW t \in Tabs \ behind'
    PROVE  TabIsTrue(t)'
<1> USE DEF cookies
<1>0. /\ TypeOK /\ Ranges /\ FormsWait /\ req \in [Requests -> Reqs]
      /\ \A s \in Tabs \ behind : TabIsTrue(s) /\ (me[s].at # "idle" => me[s].token = cookie)
  BY TypeParts DEF QuietInv, CookieInv, Ranges
<1>1. ASSUME UNCHANGED <<sessions, cookie>>, t \notin behind,
             me'[t] = me[t], loading'[t] = loading[t], user'[t] = user[t],
             \A s \in Requests : req[s].at \in {"done", "failed"} /\ req[s].tab = t => req'[s] = req[s]
      PROVE  TabIsTrue(t)'
  <2>1. \A s \in Requests : Leaves(s, t) => Leaves(s, t)'
    BY <1>1 DEF Leaves
  <2>. QED  BY <1>1, <2>1, TabStaysTrue
<1>2. CASE MeServed(x)
  <2>1. /\ me' = [me EXCEPT ![x] = [me[x] EXCEPT !.at = "served", !.answer = Owner(me[x].token)]]
        /\ behind' = IF me[x].token = cookie THEN behind \ {x} ELSE behind
        /\ me[x].at = "sent" /\ me[x] \in Mes
        /\ UNCHANGED <<sessions, cookie, user, loading, req>>
    BY <1>0, <1>2 DEF MeServed, Ranges
  <2>2. CASE t = x
    <3>1. me[t].token = cookie
      BY <1>0, <2>1, <2>2
    <3>2. me'[t].answer = Owner(cookie)'
      BY <1>0, <2>1, <2>2, <3>1 DEF Mes, Ranges, Owner
    <3>3. loading'[t]
      BY <1>0, <2>1, <2>2 DEF FormsWait
    <3>. QED  BY <3>2, <3>3 DEF TabIsTrue
  <2>3. CASE t # x
    BY <1>0, <1>1, <2>1, <2>3 DEF Ranges
  <2>. QED  BY <2>2, <2>3
<1>3. CASE MeAnswers(x) \/ MeFails(x)
  <2>1. PICK u \in {me[x].answer, NoUser} :
            /\ Checked(x, u) /\ behind \subseteq behind'
            /\ x \notin behind' => u = me[x].answer /\ me[x].at = "served"
    BY <1>3 DEF MeAnswers, MeFails
  <2>2. /\ user' = [user EXCEPT ![x] = u] /\ loading' = [loading EXCEPT ![x] = FALSE]
        /\ me' = [me EXCEPT ![x] = Idle] /\ UNCHANGED <<sessions, cookie, req>>
    BY <2>1 DEF Checked
  <2>3. CASE t = x
    <3>1. u = Owner(cookie)
      BY <1>0, <2>1, <2>3 DEF TabIsTrue
    <3>2. user'[t] = Owner(cookie)' /\ me'[t].at = "idle"
      BY <1>0, <2>2, <2>3, <3>1 DEF Ranges, Owner, Idle
    <3>. QED  BY <3>2 DEF TabIsTrue
  <2>4. CASE t # x
    BY <1>0, <1>1, <2>1, <2>2, <2>4 DEF Ranges
  <2>. QED  BY <2>3, <2>4
<1>4. ASSUME NEW place, GoTo(x, place)
      PROVE  TabIsTrue(t)'
  BY <1>1, <1>4 DEF GoTo
<1>5. ASSUME NEW place, Reload(x, place)
      PROVE  TabIsTrue(t)'
  <2>1. /\ user' = [user EXCEPT ![x] = NoUser] /\ loading' = [loading EXCEPT ![x] = TRUE]
        /\ me' = [me EXCEPT ![x] = [Idle EXCEPT !.at = "sent", !.token = cookie]]
        /\ UNCHANGED <<sessions, cookie, behind>>
    BY <1>5 DEF Reload
  <2>2. CASE t = x
    <3>1. loading'[t] /\ me'[t].at = "sent"
      BY <1>0, <2>1, <2>2 DEF Ranges, Idle
    <3>. QED  BY <3>1 DEF TabIsTrue
  <2>3. CASE t # x
    <3>1. \A s \in Requests : req[s].tab = t => req'[s] = req[s]
      BY <1>5, <2>3 DEF Reload
    <3>. QED  BY <1>0, <1>1, <2>1, <2>3, <3>1 DEF Ranges
  <2>. QED  BY <2>2, <2>3
<1>6. ASSUME NEW r \in Requests,
             \/ SubmitLogin(r, x) \/ SubmitRegister(r, x) \/ SubmitReset(r, x)
             \/ SubmitForgot(r, x) \/ ClickLogout(r, x)
      PROVE  TabIsTrue(t)'
  <2>1. PICK kind, a : Send(r, kind, x, a) /\ UNCHANGED <<sessions, cookie, user, loading, me, behind>>
    BY <1>6 DEF SubmitLogin, SubmitRegister, SubmitReset, SubmitForgot, Submit, ClickLogout
  <2>2. \A s \in Requests : req[s].at \in {"done", "failed"} => req'[s] = req[s]
    BY <1>0, <2>1 DEF Send
  <2>. QED  BY <1>1, <2>1, <2>2
<1>. QED  BY <1>2, <1>3, <1>4, <1>5, <1>6

LEMMA StepQuietInv == QuietInv /\ [Next]_vars => QuietInv'
<1> SUFFICES ASSUME QuietInv, [Next]_vars
             PROVE  QuietInv'
  OBVIOUS
<1>1. CookieInv' /\ TypeOK'
  BY StepCookieInv DEF QuietInv, CookieInv
<1>2. CASE UNCHANGED vars
  BY <1>1, <1>2 DEF vars, cookies, QuietInv, TokensInv, TabIsTrue, Leaves, Owner
<1>3. CASE Next
  <2>1. RequestsMove
    BY <1>3, StepRequestsMove DEF QuietInv, CookieInv
  <2>2. TokensInv'
    BY <1>1, <2>1, StepTokensInv DEF QuietInv
  <2>3. ASSUME NEW r \in Requests, SessionEnds(r), NEW t \in Tabs \ behind'
        PROVE  TabIsTrue(t)'
    BY <2>3 DEF SessionEnds
  <2>4. \A t \in Tabs \ behind' : TabIsTrue(t)'
    BY <1>1, <1>3, <2>1, <2>3, ServedTabs, MovesTabs, AnswerTabs, TabTabs DEF Next
  <2>. QED  BY <1>1, <2>2, <2>4 DEF QuietInv
<1>. QED  BY <1>2, <1>3

\* A tab that waits for nothing, and was told of every change of its session,
\* shows the user the server would name by the cookie.
THEOREM QuietUserTrue == Spec => []QuietUserIsTrue
<1>1. QuietInv => QuietUserIsTrue
  <2> SUFFICES ASSUME QuietInv, NEW t \in Tabs \ behind, Quiet(t)
               PROVE  user[t] = Owner(cookie)
    BY DEF QuietUserIsTrue
  <2>. QED  BY DEF QuietInv, TabIsTrue, Leaves, Quiet, InFlight
<1>. QED  BY <1>1, InitQuietInv, StepQuietInv, PTL DEF Spec
=============================================================================
