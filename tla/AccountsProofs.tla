--------------------------- MODULE AccountsProofs ---------------------------
(***************************************************************************)
(* Theorems about Accounts that hold for every choice of its constants.    *)
(***************************************************************************)
EXTENDS Accounts, TLAPS

-----------------------------------------------------------------------------
(* Type correctness.                                                       *)

LEMMA InitTypeOK == Init => TypeOK
BY DEF Init, TypeOK, Passwords

LEMMA LoginTypeOK ==
    ASSUME TypeOK, NEW s \in Logins, LoginStep(s)
    PROVE  TypeOK'
<1> USE AccountsAssumption DEF TypeOK, Passwords, EndSessions, Exists
<1>1. ASSUME NEW u \in Users, Register(s, u)
      PROVE  TypeOK'
  BY <1>1 DEF Register
<1>2. ASSUME NEW u \in Users, Login(s, u)
      PROVE  TypeOK'
  BY <1>2 DEF Login
<1>3. CASE RegisterCommit(s)
  BY <1>3 DEF RegisterCommit
<1>4. CASE LoginCommit(s)
  BY <1>4 DEF LoginCommit
<1>5. CASE Logout(s)
  BY <1>5 DEF Logout
<1>6. CASE Expire(s)
  BY <1>6 DEF Expire
<1>. QED  BY <1>1, <1>2, <1>3, <1>4, <1>5, <1>6 DEF LoginStep

LEMMA RequestTypeOK ==
    ASSUME TypeOK, NEW q \in Requests, RequestStep(q)
    PROVE  TypeOK'
<1> USE AccountsAssumption DEF TypeOK, Passwords, Kinds
<1>1. ASSUME NEW s \in Logins, NEW kind \in Kinds, Authenticate(q, s, kind)
      PROVE  TypeOK'
  BY <1>1 DEF Authenticate
<1>2. ASSUME NEW s \in Logins, DropExpired(q, s)
      PROVE  TypeOK'
  BY <1>2 DEF DropExpired, EndSessions
<1>3. CASE Commit(q)
  BY <1>3 DEF Commit, Written, Stopped
<1>4. CASE LockWait(q)
  BY <1>4 DEF LockWait
<1>5. CASE CommitAgain(q)
  BY <1>5 DEF CommitAgain, Stopped
<1>6. CASE GiveUp(q)
  BY <1>6 DEF GiveUp, Stopped
<1>. QED  BY <1>1, <1>2, <1>3, <1>4, <1>5, <1>6 DEF RequestStep

LEMMA LinkTypeOK ==
    ASSUME TypeOK, NEW k \in Links, LinkStep(k)
    PROVE  TypeOK'
<1> USE AccountsAssumption DEF TypeOK, Passwords, Exists
<1>1. ASSUME NEW u \in Users, Forgot(k, u)
      PROVE  TypeOK'
  BY <1>1 DEF Forgot
<1>2. CASE ForgotCommit(k)
  BY <1>2 DEF ForgotCommit
<1>3. CASE LinkAges(k)
  BY <1>3 DEF LinkAges
<1>. QED  BY <1>1, <1>2, <1>3 DEF LinkStep

LEMMA ResetTypeOK ==
    ASSUME TypeOK, NEW r \in Resets, ResetStep(r)
    PROVE  TypeOK'
<1> USE AccountsAssumption DEF TypeOK, Passwords, EndSessions, Exists
<1>1. ASSUME NEW k \in Links, Reset(r, k)
      PROVE  TypeOK'
  BY <1>1 DEF Reset
<1>2. CASE ResetCommit(r)
  <2> DEFINE k == reset[r].link
             u == link[k].user
  <2>1. /\ k \in Links /\ u \in Users
        /\ link[k].pc \in {"open", "used", "gone"}
    BY <1>2 DEF ResetCommit
  <2>2. CASE Exists(u)
    <3>1. /\ pw' = [pw EXCEPT ![u] = r] /\ link' = Voided(k, u)
          /\ EndSessions(SessionsOf(u))
          /\ reset' = [reset EXCEPT ![r].pc = "done"]
          /\ UNCHANGED <<account, login, old, req, change>>
      BY <1>2, <2>2 DEF ResetCommit
    <3>2. /\ link' \in [Links -> [pc : {"no"}, user : {Nobody}, pw : {Nobody}]
                            \cup [pc : {"asked", "open", "used", "gone"},
                                  user : Users, pw : Passwords]]
          /\ \A j \in Links : link'[j].pc # link[j].pc => link'[j].pc = "used"
      BY <2>1, <3>1 DEF Voided
    <3>3. reset' \in [Resets -> [pc : {"no"}, link : {Nobody}]
                           \cup [pc : {"checked", "done", "refused"}, link : Links]]
      BY <1>2, <3>1 DEF ResetCommit
    <3>4. \A q \in Resets : reset'[q].pc # "no" =>
             reset[q].pc # "no" /\ reset'[q].link = reset[q].link
      BY <1>2, <3>1 DEF ResetCommit
    <3>5. /\ pw' \in [Users -> Passwords]
          /\ sess' \subseteq Logins /\ expired' \subseteq sess'
          /\ \A s \in sess' : login[s].pc = "answered"
      BY <2>1, <3>1 DEF SessionsOf
    <3>6. ASSUME NEW q \in Resets, reset'[q].pc # "no"
          PROVE  link'[reset'[q].link].pc \in {"open", "used", "gone"}
      <4>1. /\ reset[q].link \in Links /\ reset'[q].link = reset[q].link
            /\ link[reset[q].link].pc \in {"open", "used", "gone"}
        BY <3>4, <3>6
      <4>. QED  BY <3>2, <4>1
    <3>7. /\ account' = account /\ login' = login /\ old' = old
          /\ req' = req /\ change' = change
      BY <3>1
    <3>. HIDE DEF k, u
    <3>. QED  BY <3>2, <3>3, <3>5, <3>6, <3>7
  <2>3. CASE ~Exists(u)
    BY <1>2, <2>3 DEF ResetCommit
  <2>. QED  BY <2>2, <2>3
<1>. QED  BY <1>1, <1>2 DEF ResetStep

LEMMA StatusTypeOK ==
    ASSUME TypeOK, NEW c \in Changes, StatusStep(c)
    PROVE  TypeOK'
<1> USE AccountsAssumption DEF TypeOK, Passwords, EndSessions, Exists
<1>1. ASSUME NEW u \in Users, NEW want \in {"active", "banned"}, Status(c, u, want)
      PROVE  TypeOK'
  BY <1>1 DEF Status
<1>2. CASE StatusCommit(c)
  BY <1>2 DEF StatusCommit, SessionsOf
<1>. QED  BY <1>1, <1>2 DEF StatusStep

LEMMA DeleteTypeOK ==
    ASSUME TypeOK, NEW u \in Users, Delete(u)
    PROVE  TypeOK'
BY DEF TypeOK, Passwords, EndSessions, SessionsOf, Delete, Exists

LEMMA StepTypeOK == TypeOK /\ [Next]_vars => TypeOK'
<1>1. TypeOK /\ UNCHANGED vars => TypeOK'
  BY DEF vars, TypeOK
<1>. QED  BY <1>1, LoginTypeOK, RequestTypeOK, LinkTypeOK, ResetTypeOK, StatusTypeOK,
             DeleteTypeOK DEF Next

\* Every variable keeps its range, and what has expired exists.
THEOREM TypeCorrect == Spec => []TypeOK
BY InitTypeOK, StepTypeOK, PTL DEF Spec

-----------------------------------------------------------------------------
(* Sessions, links and requests under way.                                 *)

\* A session belongs to an account, and its request is over.
SessionsAnswered ==
    \A s \in sess : login[s].pc = "answered" /\ Exists(login[s].user)

\* Links are asked for by accounts and go with them.
LinksOfAccounts ==
    \A k \in Links :
        /\ link[k].pc = "asked" => account[link[k].user] # "none"
        /\ link[k].pc = "open" => Exists(link[k].user)

\* A request is made under a session whose login was answered, on behalf of
\* somebody who has registered.
RequestsAnswered ==
    \A q \in Requests : req[q].pc # "no" => login[req[q].sess].pc = "answered"
AnsweredRegistered ==
    \A s \in Logins : login[s].pc = "answered" => account[login[s].user] # "none"

\* While a request has yet to write and its session exists, nothing was revoked.
NotRevoked ==
    \A q \in Requests :
        req[q].pc = "running" /\ req[q].sess \in sess =>
            /\ account[login[req[q].sess].user] = "active"
            /\ pw[login[req[q].sess].user] = req[q].pw

CredInv ==
    /\ TypeOK
    /\ SessionsAnswered
    /\ LinksOfAccounts
    /\ OpenLinkIsCurrent
    /\ RequestsAnswered
    /\ AnsweredRegistered
    /\ NotRevoked

LEMMA InitCredInv == Init => CredInv
BY InitTypeOK
   DEF Init, CredInv, SessionsAnswered, LinksOfAccounts, OpenLinkIsCurrent,
       RequestsAnswered, AnsweredRegistered, NotRevoked

LEMMA LoginCredInv ==
    ASSUME CredInv, NEW s \in Logins, LoginStep(s)
    PROVE  CredInv'
<1>t. TypeOK'
  BY LoginTypeOK DEF CredInv
<1> USE <1>t, AccountsAssumption
    DEF TypeOK, Passwords, Exists, EndSessions, SessionsOf, CredInv, SessionsAnswered,
        LinksOfAccounts, OpenLinkIsCurrent, RequestsAnswered, AnsweredRegistered, NotRevoked
<1>1. ASSUME NEW u \in Users, Register(s, u)
      PROVE  CredInv'
  BY <1>1 DEF Register
<1>2. ASSUME NEW u \in Users, Login(s, u)
      PROVE  CredInv'
  BY <1>2 DEF Login
<1>3. CASE RegisterCommit(s)
  BY <1>3 DEF RegisterCommit
<1>4. CASE LoginCommit(s)
  BY <1>4 DEF LoginCommit
<1>5. CASE Logout(s)
  BY <1>5 DEF Logout
<1>6. CASE Expire(s)
  BY <1>6 DEF Expire
<1>. QED  BY <1>1, <1>2, <1>3, <1>4, <1>5, <1>6 DEF LoginStep

LEMMA RequestCredInv ==
    ASSUME CredInv, NEW q \in Requests, RequestStep(q)
    PROVE  CredInv'
<1>t. TypeOK'
  BY RequestTypeOK DEF CredInv
<1> USE <1>t, AccountsAssumption
    DEF TypeOK, Passwords, Kinds, Exists, CredInv, SessionsAnswered, LinksOfAccounts,
        OpenLinkIsCurrent, RequestsAnswered, AnsweredRegistered, NotRevoked
<1>1. ASSUME NEW s \in Logins, NEW kind \in Kinds, Authenticate(q, s, kind)
      PROVE  CredInv'
  BY <1>1 DEF Authenticate
<1>2. ASSUME NEW s \in Logins, DropExpired(q, s)
      PROVE  CredInv'
  BY <1>2 DEF DropExpired, EndSessions
<1>3. ASSUME Commit(q) \/ LockWait(q) \/ CommitAgain(q) \/ GiveUp(q)
      PROVE  CredInv'
  <2>1. /\ UNCHANGED <<account, pw, sess, login, link>>
        /\ req[q].pc # "no" /\ req'[q].sess = req[q].sess /\ req'[q].pc # "running"
        /\ \A p \in Requests \ {q} : req'[p] = req[p]
    BY <1>3 DEF Commit, LockWait, CommitAgain, GiveUp, Written, Stopped
  <2>2. RequestsAnswered' /\ NotRevoked'
    BY <2>1
  <2>. QED  BY <2>1, <2>2
<1>. QED  BY <1>1, <1>2, <1>3 DEF RequestStep

LEMMA LinkCredInv ==
    ASSUME CredInv, NEW k \in Links, LinkStep(k)
    PROVE  CredInv'
<1>t. TypeOK'
  BY LinkTypeOK DEF CredInv
<1> USE <1>t, AccountsAssumption
    DEF TypeOK, Passwords, Exists, EndSessions, SessionsOf, CredInv, SessionsAnswered,
        LinksOfAccounts, OpenLinkIsCurrent, RequestsAnswered, AnsweredRegistered, NotRevoked
<1>1. ASSUME NEW u \in Users, Forgot(k, u)
      PROVE  CredInv'
  BY <1>1 DEF Forgot
<1>2. CASE ForgotCommit(k)
  BY <1>2 DEF ForgotCommit
<1>3. CASE LinkAges(k)
  BY <1>3 DEF LinkAges
<1>. QED  BY <1>1, <1>2, <1>3 DEF LinkStep

LEMMA ResetCredInv ==
    ASSUME CredInv, NEW r \in Resets, ResetStep(r)
    PROVE  CredInv'
<1>t. TypeOK'
  BY ResetTypeOK DEF CredInv
<1> USE <1>t, AccountsAssumption
    DEF TypeOK, Passwords, Exists, EndSessions, SessionsOf, CredInv, SessionsAnswered,
        LinksOfAccounts, OpenLinkIsCurrent, RequestsAnswered, AnsweredRegistered, NotRevoked
<1>1. ASSUME NEW k \in Links, Reset(r, k)
      PROVE  CredInv'
  BY <1>1 DEF Reset
<1>2. CASE ResetCommit(r)
  BY <1>2 DEF ResetCommit, Voided
<1>. QED  BY <1>1, <1>2 DEF ResetStep

LEMMA StatusCredInv ==
    ASSUME CredInv, NEW c \in Changes, StatusStep(c)
    PROVE  CredInv'
<1>t. TypeOK'
  BY StatusTypeOK DEF CredInv
<1> USE <1>t, AccountsAssumption
    DEF TypeOK, Passwords, Exists, EndSessions, SessionsOf, CredInv, SessionsAnswered,
        LinksOfAccounts, OpenLinkIsCurrent, RequestsAnswered, AnsweredRegistered, NotRevoked
<1>1. ASSUME NEW u \in Users, NEW want \in {"active", "banned"}, Status(c, u, want)
      PROVE  CredInv'
  BY <1>1 DEF Status
<1>2. CASE StatusCommit(c)
  BY <1>2 DEF StatusCommit
<1>. QED  BY <1>1, <1>2 DEF StatusStep

LEMMA DeleteCredInv ==
    ASSUME CredInv, NEW u \in Users, Delete(u)
    PROVE  CredInv'
BY DeleteTypeOK
   DEF TypeOK, Passwords, Exists, EndSessions, SessionsOf, CredInv, SessionsAnswered,
       LinksOfAccounts, OpenLinkIsCurrent, RequestsAnswered, AnsweredRegistered, NotRevoked,
       Delete

LEMMA StepCredInv == CredInv /\ [Next]_vars => CredInv'
<1>1. CredInv /\ UNCHANGED vars => CredInv'
  BY StepTypeOK
     DEF vars, CredInv, SessionsAnswered, LinksOfAccounts, OpenLinkIsCurrent,
         RequestsAnswered, AnsweredRegistered, NotRevoked, Exists
<1>. QED  BY <1>1, LoginCredInv, RequestCredInv, LinkCredInv, ResetCredInv,
             StatusCredInv, DeleteCredInv DEF Next

LEMMA CredInvariant == Spec => []CredInv
BY InitCredInv, StepCredInv, PTL DEF Spec

\* A login, a reset or a status change that commits after the account was
\* deleted leaves no session of it.
THEOREM SessionsHaveAccounts == Spec => []SessionHasAccount
<1>1. CredInv => SessionHasAccount
  BY DEF CredInv, SessionsAnswered, SessionHasAccount
<1>. QED  BY <1>1, CredInvariant, PTL

\* No link that could still be used was mailed before the last reset.
THEOREM OpenLinksAreCurrent == Spec => []OpenLinkIsCurrent
<1>1. CredInv => OpenLinkIsCurrent
  BY DEF CredInv
<1>. QED  BY <1>1, CredInvariant, PTL

\* A ban, a reset or a deletion stops the requests it finds under way that have
\* yet to write, and a deletion those that have written as well.
THEOREM RevokedRequestsBeginNothing == Spec => RevokedBeginsNothing
<1>1. CredInv /\ [Next]_vars =>
         [\A q \in Requests : Writes(q) =>
             LET u == login[req[q].sess].user
             IN /\ Exists(u)
                /\ req[q].pc = "running" => account[u] = "active" /\ pw[u] = req[q].pw]_vars
  <2> SUFFICES ASSUME CredInv, Next, NEW q \in Requests, Writes(q)
               PROVE  LET u == login[req[q].sess].user
                      IN /\ Exists(u)
                         /\ req[q].pc = "running" =>
                               account[u] = "active" /\ pw[u] = req[q].pw
    OBVIOUS
  <2>1. PICK p \in Requests : RequestStep(p)
    BY DEF Next, Writes, LoginStep, Register, RegisterCommit, Login, LoginCommit, Logout,
           Expire, LinkStep, Forgot, ForgotCommit, LinkAges, ResetStep, Reset, ResetCommit,
           StatusStep, Status, StatusCommit, Delete
  <2>2. /\ DOMAIN req = Requests
        /\ \A s \in Requests : DOMAIN req[s] = {"pc", "kind", "sess", "pw"}
    BY DEF CredInv, TypeOK
  <2>3. ASSUME NEW s \in Logins, NEW kind \in Kinds
        PROVE  ~Authenticate(p, s, kind) /\ ~DropExpired(p, s)
    BY <2>2 DEF Writes, Authenticate, DropExpired
  <2>4. ~LockWait(p) /\ ~GiveUp(p)
    BY <2>2 DEF Writes, LockWait, GiveUp, Stopped
  <2>5. CASE Commit(p)
    <3>1. p = q /\ req[q].pc = "running" /\ req[q].sess \in sess
      BY <2>2, <2>5 DEF Writes, Commit, Stopped
    <3>. QED  BY <3>1 DEF CredInv, NotRevoked, Exists
  <2>6. CASE CommitAgain(p)
    <3>1. /\ p = q /\ req[q].pc \in {"halfway", "retrying"}
          /\ Exists(login[req[q].sess].user)
      BY <2>2, <2>6 DEF Writes, CommitAgain, Stopped
    <3>. QED  BY <3>1
  <2>. QED  BY <2>1, <2>3, <2>4, <2>5, <2>6, Zenon DEF RequestStep, Kinds
<1>. QED  BY <1>1, CredInvariant, PTL DEF Spec, RevokedBeginsNothing

-----------------------------------------------------------------------------
(* Refinement of Permits: where each action takes effect.                  *)

\* Only a link that was issued ages.
OldIssued == \A k \in old : link[k].pc \in {"open", "used", "gone"}

PermitInv == CredInv /\ OldIssued

LEMMA PermitInvariant == Spec => []PermitInv
<1>1. Init => OldIssued
  BY DEF Init, OldIssued
<1>2. ASSUME CredInv, OldIssued, [Next]_vars
      PROVE  OldIssued'
  <2> USE <1>2 DEF CredInv, TypeOK, OldIssued
  <2>1. CASE UNCHANGED <<link, old>>
    BY <2>1
  <2>2. ASSUME NEW k \in Links, (\E u \in Users : Forgot(k, u)) \/ ForgotCommit(k)
        PROVE  OldIssued'
    BY <2>2 DEF Forgot, ForgotCommit
  <2>3. ASSUME NEW k \in Links, LinkAges(k)
        PROVE  OldIssued'
    BY <2>3 DEF LinkAges
  <2>4. ASSUME NEW r \in Resets, ResetCommit(r)
        PROVE  OldIssued'
    BY <2>4 DEF ResetCommit, Voided
  <2>5. ASSUME NEW u \in Users, Delete(u)
        PROVE  OldIssued'
    BY <2>5 DEF Delete
  <2>6. \/ UNCHANGED <<link, old>>
        \/ \E k \in Links : LinkStep(k)
        \/ \E r \in Resets : ResetCommit(r)
        \/ \E u \in Users : Delete(u)
    BY DEF Next, vars, LoginStep, Register, RegisterCommit, Login, LoginCommit, Logout, Expire,
           RequestStep, Authenticate, DropExpired, Commit, LockWait, CommitAgain, GiveUp, ResetStep,
           Reset, StatusStep, Status, StatusCommit
  <2>. QED  BY <2>1, <2>2, <2>3, <2>4, <2>5, <2>6 DEF LinkStep
<1>. QED  BY <1>1, <1>2, CredInvariant, PTL DEF Spec, PermitInv

Asked == {q \in Requests : req[q].pc # "no"}
Wrote == {q \in Requests : req[q].pc \in {"halfway", "cut", "wrote"}}
Kind == [q \in Requests |-> req[q].kind]

\* What the promise sees of requests, and of links, stays as it is.
RequestsKept == Asked' = Asked /\ Wrote' = Wrote /\ Kind' = Kind
PermitsKept ==
    /\ \A v \in Users : MayBegin(v)' = MayBegin(v) /\ MayFinish(v)' = MayFinish(v)
    /\ RequestsKept
LinksKept == \A v \in Users : Usable(v)' = Usable(v) /\ Issued(v)' = Issued(v)

LEMMA Stutter ==
    ASSUME PermitsKept, LinksKept, UNCHANGED <<account, pw>>
    PROVE  UNCHANGED Access!vars
BY DEF PermitsKept, RequestsKept, LinksKept, Asked, Wrote, Kind, Access!vars

LEMMA RequestsStay ==
    ASSUME req' = req
    PROVE  RequestsKept
BY DEF RequestsKept, Asked, Wrote, Kind

\* The permits that can be withdrawn are those that the sessions carry, the
\* others need the account.
LEMMA SessionsCarry ==
    ASSUME NEW S, EndSessions(S), UNCHANGED <<login, req>>, NEW v \in Users
    PROVE  MayBegin(v)' = {q \in MayBegin(v) : req[q].sess \notin S}
BY DEF EndSessions, MayBegin, Of

LEMMA AccountsCarry ==
    ASSUME UNCHANGED <<login, req>>, NEW v \in Users, Exists(v)' = Exists(v)
    PROVE  MayFinish(v)' = MayFinish(v)
BY DEF MayFinish, Of

LEMMA Revoked ==
    ASSUME NEW u \in Users, EndSessions(SessionsOf(u)), UNCHANGED <<login, req>>, NEW v \in Users
    PROVE  MayBegin(v)' = IF v = u THEN {} ELSE MayBegin(v)
BY SessionsCarry DEF MayBegin, Of, SessionsOf

LEMMA LoginPermits ==
    ASSUME PermitInv, NEW s \in Logins, LoginStep(s)
    PROVE  [Access!Next]_Access!vars
<1>1. LinksKept /\ RequestsKept /\ req' = req
  BY RequestsStay
     DEF LoginStep, Register, RegisterCommit, Login, LoginCommit, Logout, Expire, LinksKept,
         Usable, Issued
<1>2. \A q \in Requests : req[q].pc # "no" =>
         /\ req[q].sess \in Logins /\ login[req[q].sess].pc = "answered"
         /\ account[login[req[q].sess].user] # "none"
  BY DEF PermitInv, CredInv, RequestsAnswered, AnsweredRegistered, TypeOK
<1>3. ASSUME NEW u \in Users, Register(s, u) \/ Login(s, u)
      PROVE  PermitsKept /\ UNCHANGED <<account, pw>>
  <2>1. /\ sess' = sess /\ UNCHANGED <<account, pw>>
        /\ \A t \in Logins : login[t].pc = "answered" => login'[t] = login[t]
    BY <1>3 DEF Register, Login, PermitInv, CredInv, TypeOK
  <2>. QED  BY <1>1, <1>2, <2>1 DEF PermitsKept, MayBegin, MayFinish, Of, Exists
<1>4. CASE RegisterCommit(s)
  <2> DEFINE u == login[s].user
  <2>1. /\ u \in Users
        /\ \A t \in Logins : login'[t].user = login[t].user
        /\ login[s].pc = "registering" /\ sess' \in {sess, sess \cup {s}}
        /\ account' = IF account[u] = "none" THEN [account EXCEPT ![u] = "active"] ELSE account
        /\ \A v \in Users : account'[v] # account[v] => account[v] = "none"
    BY <1>4 DEF RegisterCommit, PermitInv, CredInv, TypeOK
  <2>2. \A v \in Users : MayBegin(v)' = MayBegin(v)
    BY <1>1, <1>2, <2>1 DEF MayBegin, Of
  <2>3. ASSUME NEW v \in Users
        PROVE  MayFinish(v)' = MayFinish(v)
    <3>1. \A q \in Requests : Of(q, v)' = Of(q, v)
      BY <1>1, <1>2, <2>1 DEF Of
    <3>2. \A q \in Requests : Of(q, v) => account[v] # "none"
      BY <1>2 DEF Of
    <3>3. account[v] # "none" => Exists(v)' = Exists(v)
      BY <2>1 DEF Exists
    <3>. QED  BY <1>1, <3>1, <3>2, <3>3 DEF MayFinish
  <2>4. PermitsKept
    BY <1>1, <2>2, <2>3 DEF PermitsKept
  <2>5. CASE account[u] = "none"
    <3>1. Access!Open(u, s)
      BY <1>1, <1>4, <2>1, <2>4, <2>5
         DEF RegisterCommit, Access!Open, PermitsKept, RequestsKept, LinksKept, Asked, Wrote, Kind
    <3>2. s \in Passwords
      BY DEF Passwords
    <3>. QED  BY <2>1, <3>1, <3>2 DEF Access!Next, Access!AccountStep
  <2>6. CASE account[u] # "none"
    BY <1>1, <1>4, <2>4, <2>6, Stutter DEF RegisterCommit
  <2>. QED  BY <2>5, <2>6
<1>5. CASE LoginCommit(s)
  <2>1. /\ \A t \in Logins : login'[t].user = login[t].user
        /\ login[s].pc = "verified" /\ sess' \in {sess, sess \cup {s}}
        /\ UNCHANGED <<account, pw>>
    BY <1>5 DEF LoginCommit, PermitInv, CredInv, TypeOK
  <2>2. PermitsKept
    BY <1>1, <1>2, <2>1 DEF PermitsKept, MayBegin, MayFinish, Of, Exists
  <2>. QED  BY <1>1, <2>1, <2>2, Stutter
<1>6. CASE Logout(s)
  <2> DEFINE u == login[s].user
             Q == {q \in MayBegin(u) : req[q].sess = s}
  <2>1. u \in Users /\ EndSessions({s}) /\ UNCHANGED <<account, pw, login>>
    BY <1>6 DEF Logout, PermitInv, CredInv, TypeOK
  <2>2. \A v \in Users : MayBegin(v)' = IF v = u THEN MayBegin(u) \ Q ELSE MayBegin(v)
    BY <1>1, <2>1, SessionsCarry DEF MayBegin, Of
  <2>3. \A v \in Users : MayFinish(v)' = MayFinish(v)
    BY <1>1, <2>1, AccountsCarry DEF Exists
  <2>4. Access!Drop(u, Q, {})
    BY <1>1, <2>1, <2>2, <2>3 DEF Access!Drop, RequestsKept, LinksKept, Asked, Wrote, Kind
  <2>5. Q \in SUBSET Requests
    BY DEF MayBegin
  <2>. QED  BY <2>1, <2>4, <2>5 DEF Access!Next, Access!RequestStep
<1>7. CASE Expire(s)
  <2>1. PermitsKept /\ UNCHANGED <<account, pw>>
    BY <1>1, <1>7 DEF Expire, PermitsKept, MayBegin, MayFinish, Of, Exists
  <2>. QED  BY <1>1, <2>1, Stutter
<1>. QED  BY <1>1, <1>3, <1>4, <1>5, <1>6, <1>7, Stutter DEF LoginStep

LEMMA RequestPermits ==
    ASSUME PermitInv, NEW q \in Requests, RequestStep(q)
    PROVE  [Access!Next]_Access!vars
<1>1. LinksKept /\ UNCHANGED <<account, pw, login>>
  BY DEF RequestStep, Authenticate, DropExpired, Commit, LockWait, CommitAgain, GiveUp, LinksKept,
         Usable, Issued
<1>2. ASSUME NEW s \in Logins, NEW kind \in Kinds, Authenticate(q, s, kind)
      PROVE  Access!Next
  <2> DEFINE u == login[s].user
  <2>1. /\ u \in Users /\ s \in sess /\ sess' = sess
        /\ account[u] = "active" /\ req[q].pc = "no"
        /\ req'[q].pc = "running" /\ req'[q].sess = s /\ req'[q].kind = kind
        /\ \A p \in Requests \ {q} : req'[p] = req[p]
    BY <1>2 DEF Authenticate, PermitInv, CredInv, TypeOK
  <2>2. \A v \in Users : MayBegin(v)' = IF v = u /\ kind # "deletion"
                                        THEN MayBegin(u) \cup {q} ELSE MayBegin(v)
    BY <1>1, <2>1 DEF MayBegin, Of
  <2>3. \A v \in Users : MayFinish(v)' = IF v = u /\ kind = "deletion"
                                         THEN MayFinish(u) \cup {q} ELSE MayFinish(v)
    BY <1>1, <2>1 DEF MayFinish, Of, Exists
  <2>4. Asked' = Asked \cup {q} /\ Wrote' = Wrote /\ q \notin Asked
    BY <2>1 DEF Asked, Wrote
  <2>5. Kind' = [Kind EXCEPT ![q] = kind]
    BY <2>1 DEF Kind
  <2> DEFINE Held == [v \in Users |-> MayBegin(v)]
             Sure == [v \in Users |-> MayFinish(v)]
  <2>6. Held' = [Held EXCEPT ![u] = IF kind = "deletion" THEN @ ELSE @ \cup {q}]
    BY <2>1, <2>2
  <2>7. Sure' = [Sure EXCEPT ![u] = IF kind = "deletion" THEN @ \cup {q} ELSE @]
    BY <2>1, <2>3
  <2>8. Access!Enter(u, q, kind)
    BY <1>1, <2>1, <2>4, <2>5, <2>6, <2>7 DEF Access!Enter, LinksKept, Asked, Wrote, Kind
  <2>. QED  BY <2>1, <2>8 DEF Access!Next, Access!RequestStep, Kinds
<1>3. ASSUME NEW s \in Logins, DropExpired(q, s)
      PROVE  Access!Next
  <2> DEFINE u == login[s].user
             Q == {p \in MayBegin(u) : req[p].sess = s}
  <2>1. /\ u \in Users /\ sess' = sess \ {s} /\ req[q].pc = "no" /\ req'[q].pc = "refused"
        /\ req[q].kind = "none" /\ req'[q].kind = "none"
        /\ \A p \in Requests \ {q} : req'[p] = req[p]
    BY <1>3 DEF DropExpired, EndSessions, PermitInv, CredInv, TypeOK
  <2>2. \A v \in Users : /\ MayBegin(v)' = IF v = u THEN MayBegin(u) \ Q ELSE MayBegin(v)
                         /\ MayFinish(v)' = MayFinish(v)
    BY <1>1, <2>1 DEF MayBegin, MayFinish, Of, Exists
  <2>3. Asked' = Asked \cup {q} /\ Wrote' = Wrote /\ Kind' = Kind /\ q \notin Asked
    BY <2>1 DEF Asked, Wrote, Kind
  <2>4. Access!Drop(u, Q, {q})
    BY <1>1, <2>1, <2>2, <2>3 DEF Access!Drop, LinksKept, Asked, Wrote, Kind
  <2>5. Q \in SUBSET Requests /\ {q} \in SUBSET Requests
    BY DEF MayBegin
  <2>. QED  BY <2>1, <2>4, <2>5 DEF Access!Next, Access!RequestStep
<1> DEFINE s == req[q].sess
           u == login[s].user
<1>4. ASSUME req[q].pc # "no"
      PROVE  s \in Logins /\ u \in Users /\ Of(q, u)
  BY <1>4 DEF PermitInv, CredInv, TypeOK, RequestsAnswered, Of
<1>5. ASSUME req[q].pc # "no", sess' = sess, req'[q].pc # "no", req'[q].sess = s,
             req'[q].kind = req[q].kind, \A p \in Requests \ {q} : req'[p] = req[p]
      PROVE  /\ Asked' = Asked /\ Kind' = Kind
             /\ \A v \in Users : \A p \in Requests : Of(p, v)' = Of(p, v)
  BY <1>1, <1>5 DEF Asked, Kind, Of
<1>6. CASE Commit(q)
  <2>1. /\ req[q].pc = "running" /\ sess' = sess /\ req'[q].sess = s
        /\ req'[q].pc = IF s \in sess THEN Written(q) ELSE "refused"
        /\ req'[q].kind = req[q].kind
        /\ \A p \in Requests \ {q} : req'[p] = req[p]
    BY <1>6 DEF Commit, Stopped, PermitInv, CredInv, TypeOK
  <2>2. /\ Asked' = Asked /\ Kind' = Kind
        /\ \A v \in Users : \A p \in Requests : Of(p, v)' = Of(p, v)
    BY <1>5, <2>1 DEF Written
  <2>3. u \in Users /\ Of(q, u)
    BY <1>4, <2>1
  <2>4. s \in sess => Exists(u)
    BY DEF PermitInv, CredInv, SessionsAnswered
  <2>5. CASE s \in sess /\ req[q].kind # "deletion"
    <3>1. q \in MayBegin(u) /\ Wrote' = Wrote \cup {q}
      BY <2>1, <2>3, <2>5 DEF MayBegin, Wrote, Written
    <3>2. \A v \in Users : MayBegin(v)' = IF v = u THEN MayBegin(u) \ {q} ELSE MayBegin(v)
      BY <2>1, <2>2, <2>3, <2>5 DEF MayBegin, Written, Of
    <3>3. \A v \in Users : MayFinish(v)' = IF v = u /\ req[q].kind = "turn"
                                           THEN MayFinish(u) \cup {q} ELSE MayFinish(v)
      BY <1>1, <2>1, <2>2, <2>3, <2>4, <2>5 DEF MayFinish, Written, Of, Exists
    <3>4. Access!Begin(u, q)
      BY <1>1, <2>2, <2>3, <3>1, <3>2, <3>3
         DEF Access!Begin, LinksKept, Asked, Wrote, Kind
    <3>. QED  BY <2>3, <3>4 DEF Access!Next, Access!RequestStep
  <2>6. CASE s \in sess /\ req[q].kind = "deletion"
    <3>1. q \in MayFinish(u) /\ Wrote' = Wrote \cup {q}
      BY <2>1, <2>3, <2>4, <2>6 DEF MayFinish, Wrote, Written
    <3>2. \A v \in Users : /\ MayBegin(v)' = MayBegin(v)
                           /\ MayFinish(v)' = IF v = u THEN MayFinish(u) \ {q} ELSE MayFinish(v)
      BY <1>1, <2>1, <2>2, <2>3, <2>6 DEF MayBegin, MayFinish, Written, Of, Exists
    <3>3. Access!Finish(u, q)
      BY <1>1, <2>2, <2>3, <3>1, <3>2 DEF Access!Finish, LinksKept, Asked, Wrote, Kind
    <3>. QED  BY <2>3, <3>3 DEF Access!Next, Access!RequestStep
  <2>7. CASE s \notin sess
    <3>1. Wrote' = Wrote /\ (\A v \in Users : MayBegin(v)' = MayBegin(v))
      BY <2>1, <2>2, <2>7 DEF MayBegin, Wrote
    <3>2. \A v \in Users : MayFinish(v)' = IF v = u THEN MayFinish(u) \ {q} ELSE MayFinish(v)
      BY <1>1, <2>1, <2>2, <2>3, <2>7 DEF MayFinish, Of, Exists
    <3>3. CASE q \in MayFinish(u)
      <4>1. Access!Stop(u, q)
        BY <1>1, <2>2, <2>3, <3>1, <3>2, <3>3 DEF Access!Stop, LinksKept, Asked, Wrote, Kind
      <4>. QED  BY <2>3, <4>1 DEF Access!Next, Access!RequestStep
    <3>4. CASE q \notin MayFinish(u)
      <4>1. PermitsKept
        BY <2>2, <3>1, <3>2, <3>4 DEF PermitsKept, RequestsKept
      <4>. QED  BY <1>1, <4>1, Stutter
    <3>. QED  BY <3>3, <3>4
  <2>. QED  BY <2>5, <2>6, <2>7
<1>7. CASE LockWait(q)
  <2>1. /\ req[q].pc = "running" /\ req[q].kind = "deletion" /\ sess' = sess
        /\ req'[q].pc = "retrying" /\ req'[q].sess = s /\ req'[q].kind = req[q].kind
        /\ \A p \in Requests \ {q} : req'[p] = req[p]
    BY <1>7 DEF LockWait, PermitInv, CredInv, TypeOK
  <2>2. /\ Asked' = Asked /\ Kind' = Kind
        /\ \A v \in Users : \A p \in Requests : Of(p, v)' = Of(p, v)
    BY <1>5, <2>1
  <2>3. PermitsKept
    BY <1>1, <2>1, <2>2 DEF PermitsKept, RequestsKept, MayBegin, MayFinish, Wrote, Exists
  <2>. QED  BY <1>1, <2>3, Stutter
<1>8. CASE CommitAgain(q) \/ GiveUp(q)
  <2>1. /\ req[q].pc \in {"halfway", "retrying"} /\ sess' = sess
        /\ req'[q].pc \in {"wrote", Stopped(q)} /\ (req'[q].pc = "wrote" => Exists(u))
        /\ req'[q].sess = s /\ req'[q].kind = req[q].kind
        /\ \A p \in Requests \ {q} : req'[p] = req[p]
    BY <1>8 DEF CommitAgain, GiveUp, PermitInv, CredInv, TypeOK, Stopped
  <2>2. /\ Asked' = Asked /\ Kind' = Kind
        /\ \A v \in Users : \A p \in Requests : Of(p, v)' = Of(p, v)
    BY <1>5, <2>1 DEF Stopped
  <2>3. u \in Users /\ Of(q, u)
    BY <1>4, <2>1
  <2>4. \A v \in Users :
           /\ MayBegin(v)' = MayBegin(v)
           /\ MayFinish(v)' = IF v = u THEN MayFinish(u) \ {q} ELSE MayFinish(v)
    BY <1>1, <2>1, <2>2, <2>3 DEF MayBegin, MayFinish, Stopped, Of, Exists
  <2>5. CASE req'[q].pc = "wrote"
    <3>1. q \in MayFinish(u) /\ Wrote' = Wrote \cup {q}
      BY <2>1, <2>3, <2>5 DEF MayFinish, Wrote
    <3>2. Access!Finish(u, q)
      BY <1>1, <2>2, <2>3, <2>4, <3>1 DEF Access!Finish, LinksKept, Asked, Wrote, Kind
    <3>. QED  BY <2>3, <3>2 DEF Access!Next, Access!RequestStep
  <2>6. CASE req'[q].pc = Stopped(q)
    <3>1. Wrote' = Wrote
      BY <2>1, <2>6 DEF Wrote, Stopped
    <3>2. CASE q \in MayFinish(u)
      <4>1. Access!Stop(u, q)
        BY <1>1, <2>2, <2>3, <2>4, <3>1, <3>2 DEF Access!Stop, LinksKept, Asked, Wrote, Kind
      <4>. QED  BY <2>3, <4>1 DEF Access!Next, Access!RequestStep
    <3>3. CASE q \notin MayFinish(u)
      <4>1. PermitsKept
        BY <2>2, <2>4, <3>1, <3>3 DEF PermitsKept, RequestsKept
      <4>. QED  BY <1>1, <4>1, Stutter
    <3>. QED  BY <3>2, <3>3
  <2>. QED  BY <2>1, <2>5, <2>6
<1>. QED  BY <1>2, <1>3, <1>6, <1>7, <1>8 DEF RequestStep

LEMMA LinkPermits ==
    ASSUME PermitInv, NEW k \in Links, LinkStep(k)
    PROVE  [Access!Next]_Access!vars
<1>1. PermitsKept /\ UNCHANGED <<account, pw>>
  <2>1. UNCHANGED <<account, pw, sess, login, req>>
    BY DEF LinkStep, Forgot, ForgotCommit, LinkAges
  <2>. QED  BY <2>1, RequestsStay DEF PermitsKept, MayBegin, MayFinish, Of, Exists
<1>2. ASSUME NEW u \in Users, Forgot(k, u)
      PROVE  LinksKept
  <2>1. /\ link[k].pc = "no" /\ link'[k].pc = "asked" /\ old' = old
        /\ \A j \in Links \ {k} : link'[j] = link[j]
    BY <1>2 DEF Forgot, PermitInv, CredInv, TypeOK
  <2>. QED  BY <2>1 DEF LinksKept, Usable, Issued
<1>3. CASE ForgotCommit(k)
  <2> DEFINE u == link[k].user
  <2>1. /\ u \in Users /\ link[k].pc = "asked" /\ k \notin old /\ old' = old
        /\ link'[k].pc = IF Exists(u) THEN "open" ELSE "gone"
        /\ link'[k].user = u
        /\ \A j \in Links \ {k} : link'[j] = link[j]
    BY <1>3 DEF ForgotCommit, PermitInv, OldIssued, CredInv, TypeOK
  <2>2. \A v \in Users :
           /\ k \notin Issued(v)
           /\ Issued(v)' = IF v = u THEN Issued(u) \cup {k} ELSE Issued(v)
           /\ Usable(v)' = IF v = u /\ Exists(u) THEN Usable(u) \cup {k} ELSE Usable(v)
    BY <2>1 DEF Issued, Usable
  <2>3. Access!Issue(u, k)
    BY <1>1, <2>1, <2>2 DEF Access!Issue, Access!Exists, Exists, PermitsKept, RequestsKept,
                                     Asked, Wrote, Kind
  <2>. QED  BY <2>1, <2>3 DEF Access!Next, Access!LinkStep
<1>4. CASE LinkAges(k)
  <2> DEFINE u == link[k].user
  <2>1. /\ u \in Users /\ link[k].pc = "open" /\ k \notin old
        /\ old' = old \cup {k} /\ link' = link
    BY <1>4 DEF LinkAges, PermitInv, CredInv, TypeOK
  <2>2. \A v \in Users :
           /\ Issued(v)' = Issued(v)
           /\ Usable(v)' = IF v = u THEN Usable(u) \ {k} ELSE Usable(v)
    BY <2>1 DEF Issued, Usable
  <2>3. k \in Usable(u)
    BY <2>1 DEF Usable
  <2>4. Access!Lapse(u, k)
    BY <1>1, <2>1, <2>2, <2>3 DEF Access!Lapse, PermitsKept, RequestsKept, Asked, Wrote, Kind
  <2>. QED  BY <2>1, <2>4 DEF Access!Next, Access!LinkStep
<1>. QED  BY <1>1, <1>2, <1>3, <1>4, Stutter DEF LinkStep

LEMMA ResetPermits ==
    ASSUME PermitInv, NEW r \in Resets, ResetStep(r)
    PROVE  [Access!Next]_Access!vars
<1>1. UNCHANGED <<account, login, req, old>>
  BY DEF ResetStep, Reset, ResetCommit
<1>2. ASSUME NEW k \in Links, Reset(r, k)
      PROVE  UNCHANGED Access!vars
  <2>1. PermitsKept /\ LinksKept /\ pw' = pw
    BY <1>1, <1>2, RequestsStay
       DEF Reset, PermitsKept, LinksKept, MayBegin, MayFinish, Of, Exists, Usable, Issued
  <2>. QED  BY <1>1, <2>1, Stutter
<1>3. CASE ResetCommit(r)
  <2> DEFINE k == reset[r].link
             u == link[k].user
  <2>1. /\ k \in Links /\ link[k].pc \in {"open", "used", "gone"} /\ u \in Users
        /\ r \in Passwords
    BY <1>3 DEF ResetCommit, PermitInv, CredInv, TypeOK, Passwords
  <2>2. CASE Exists(u)
    <3>1. /\ pw' = [pw EXCEPT ![u] = r] /\ EndSessions(SessionsOf(u)) /\ link' = Voided(k, u)
      BY <1>3, <2>2 DEF ResetCommit
    <3>2. \A v \in Users : /\ MayBegin(v)' = IF v = u THEN {} ELSE MayBegin(v)
                           /\ MayFinish(v)' = MayFinish(v)
      BY <1>1, <2>1, <3>1, Revoked, AccountsCarry DEF Exists
    <3>3. \A j \in Links :
             /\ link'[j].user = link[j].user
             /\ link'[j].pc = IF j = k \/ (link[j].user = u /\ link[j].pc = "open")
                              THEN "used" ELSE link[j].pc
      BY <3>1 DEF Voided, PermitInv, CredInv, TypeOK
    <3>4. \A v \in Users :
             /\ Issued(v)' = Issued(v)
             /\ Usable(v)' = IF v = u THEN {} ELSE Usable(v)
      BY <1>1, <2>1, <3>3 DEF Issued, Usable
    <3>5. k \in Issued(u)
      BY <2>1 DEF Issued
    <3>6. Access!Renew(u, k, r)
      BY <1>1, <2>1, <2>2, <3>1, <3>2, <3>4, <3>5, RequestsStay
         DEF Access!Renew, Access!Exists, Exists, RequestsKept, Asked, Wrote, Kind
    <3>. QED  BY <2>1, <3>6 DEF Access!Next, Access!LinkStep
  <2>3. CASE ~Exists(u)
    <3>1. PermitsKept /\ LinksKept /\ pw' = pw
      BY <1>1, <1>3, <2>3, RequestsStay
         DEF ResetCommit, PermitsKept, LinksKept, MayBegin, MayFinish, Of, Exists, Usable, Issued
    <3>. QED  BY <1>1, <3>1, Stutter
  <2>. QED  BY <2>2, <2>3
<1>. QED  BY <1>2, <1>3 DEF ResetStep

LEMMA StatusPermits ==
    ASSUME PermitInv, NEW c \in Changes, StatusStep(c)
    PROVE  [Access!Next]_Access!vars
<1>1. LinksKept /\ RequestsKept /\ UNCHANGED <<pw, login, req>>
  BY RequestsStay DEF StatusStep, Status, StatusCommit, LinksKept, Usable, Issued
<1>2. ASSUME NEW u \in Users, NEW want \in {"active", "banned"}, Status(c, u, want)
      PROVE  UNCHANGED Access!vars
  <2>1. PermitsKept /\ account' = account
    BY <1>1, <1>2 DEF Status, PermitsKept, MayBegin, MayFinish, Of, Exists
  <2>. QED  BY <1>1, <2>1, Stutter
<1>3. CASE StatusCommit(c)
  <2> DEFINE u == change[c].user
             want == change[c].want
             differs == want # change[c].seen
  <2>1. u \in Users /\ want \in {"active", "banned"}
    BY <1>3 DEF StatusCommit, PermitInv, CredInv, TypeOK
  <2>2. account \in [Users -> {"none", "active", "banned", "gone"}]
    BY DEF PermitInv, CredInv, TypeOK
  <2>f. ASSUME NEW v \in Users
        PROVE  MayFinish(v)' = MayFinish(v)
    <3>1. Exists(v)' = Exists(v)
      BY <1>3, <2>1, <2>2 DEF StatusCommit, Exists
    <3>. QED  BY <1>1, <3>1, AccountsCarry
  <2>3. CASE differs /\ ~Exists(u)
    <3>1. PermitsKept /\ account' = account
      BY <1>1, <1>3, <2>3
         DEF StatusCommit, PermitsKept, MayBegin, MayFinish, Of, Exists
    <3>. QED  BY <1>1, <3>1, Stutter
  <2>4. CASE ~(differs /\ ~Exists(u)) /\ want = "banned"
    <3>1. \A v \in Users : MayBegin(v)' = IF v = u THEN {} ELSE MayBegin(v)
      BY <1>1, <1>3, <2>1, <2>4, Revoked DEF StatusCommit
    <3>2. CASE differs
      <4>1. Exists(u) /\ account' = [account EXCEPT ![u] = "banned"]
        BY <1>3, <2>4, <3>2 DEF StatusCommit
      <4>2. Access!Ban(u)
        BY <1>1, <2>1, <2>f, <3>1, <4>1
           DEF Access!Ban, Access!Exists, Exists, LinksKept, RequestsKept, Asked, Wrote, Kind
      <4>. QED  BY <2>1, <4>2 DEF Access!Next, Access!AccountStep
    <3>3. CASE ~differs
      <4>1. account' = account
        BY <1>3, <2>1, <2>2, <3>3 DEF StatusCommit
      <4>2. Access!Drop(u, MayBegin(u), {})
        BY <1>1, <2>1, <2>f, <3>1, <4>1
           DEF Access!Drop, LinksKept, RequestsKept, Asked, Wrote, Kind
      <4>3. MayBegin(u) \in SUBSET Requests
        BY DEF MayBegin
      <4>. QED  BY <2>1, <4>2, <4>3 DEF Access!Next, Access!RequestStep
    <3>. QED  BY <3>2, <3>3
  <2>5. CASE ~(differs /\ ~Exists(u)) /\ want = "active"
    <3>1. EndSessions({})
      BY <1>3, <2>5 DEF StatusCommit
    <3>2. PermitsKept
      <4>1. ASSUME NEW v \in Users
            PROVE  MayBegin(v)' = MayBegin(v)
        <5>1. MayBegin(v)' = {q \in MayBegin(v) : req[q].sess \notin {}}
          BY <1>1, <3>1, SessionsCarry
        <5>. QED  BY <5>1
      <4>. QED  BY <1>1, <2>f, <4>1 DEF PermitsKept
    <3>3. CASE differs
      <4>1. Exists(u) /\ account' = [account EXCEPT ![u] = "active"]
        BY <1>3, <2>5, <3>3 DEF StatusCommit
      <4>2. Access!Reinstate(u)
        BY <1>1, <2>1, <3>2, <4>1
           DEF Access!Reinstate, Access!Exists, Exists, PermitsKept, RequestsKept, LinksKept, Asked,
               Wrote, Kind
      <4>. QED  BY <2>1, <4>2 DEF Access!Next, Access!AccountStep
    <3>4. CASE ~differs
      <4>1. account' = account
        BY <1>3, <2>1, <2>2, <3>4 DEF StatusCommit
      <4>. QED  BY <1>1, <3>2, <4>1, Stutter
    <3>. QED  BY <3>3, <3>4
  <2>. QED  BY <2>1, <2>3, <2>4, <2>5
<1>. QED  BY <1>2, <1>3 DEF StatusStep

LEMMA DeletePermits ==
    ASSUME PermitInv, NEW u \in Users, Delete(u)
    PROVE  Access!Next
<1>1. /\ Exists(u) /\ EndSessions(SessionsOf(u))
      /\ account' = [account EXCEPT ![u] = "gone"]
      /\ UNCHANGED <<pw, login, req, old>>
  BY DEF Delete
<1>2. \A v \in Users : MayBegin(v)' = IF v = u THEN {} ELSE MayBegin(v)
  BY <1>1, Revoked
<1>f. ASSUME NEW v \in Users
      PROVE  MayFinish(v)' = IF v = u THEN {} ELSE MayFinish(v)
  <2>1. CASE v = u
    <3>1. ~Exists(u)'
      BY <1>1 DEF Exists, PermitInv, CredInv, TypeOK
    <3>. QED  BY <2>1, <3>1 DEF MayFinish
  <2>2. CASE v # u
    <3>1. Exists(v)' = Exists(v)
      BY <1>1, <2>2 DEF Exists
    <3>. QED  BY <1>1, <2>2, <3>1, AccountsCarry
  <2>. QED  BY <2>1, <2>2
<1>3. \A k \in Links :
         /\ link'[k].user = link[k].user
         /\ link'[k].pc = IF link[k].user = u /\ link[k].pc \in {"open", "used"}
                          THEN "gone" ELSE link[k].pc
  BY DEF Delete, PermitInv, CredInv, TypeOK
<1>4. \A v \in Users :
         /\ Issued(v)' = Issued(v)
         /\ Usable(v)' = IF v = u THEN {} ELSE Usable(v)
  BY <1>1, <1>3 DEF Issued, Usable
<1>5. Access!Delete(u)
  BY <1>1, <1>2, <1>f, <1>4, RequestsStay
     DEF Access!Delete, Access!Exists, Exists, RequestsKept, Asked, Wrote, Kind
<1>. QED  BY <1>5 DEF Access!Next, Access!AccountStep

\* However logins, requests, resets, bans and deletions interleave, each of their
\* steps is a step of Permits or changes nothing that Permits promises about.
THEOREM PermitsImplemented == Spec => ImplementsPermits
<1>1. Init => Access!Init
  BY DEF Init, Access!Init, MayBegin, MayFinish, Of, Usable, Issued
<1>2. PermitInv /\ [Next]_vars => [Access!Next]_Access!vars
  <2>1. ASSUME UNCHANGED vars
        PROVE  UNCHANGED Access!vars
    <3>1. PermitsKept /\ LinksKept /\ UNCHANGED <<account, pw>>
      BY <2>1, RequestsStay
         DEF vars, PermitsKept, LinksKept, MayBegin, MayFinish, Of, Exists, Usable, Issued
    <3>. QED  BY <3>1, Stutter
  <2>. QED  BY <2>1, LoginPermits, RequestPermits, LinkPermits, ResetPermits, StatusPermits,
               DeletePermits DEF Next
<1>. QED  BY <1>1, <1>2, PermitInvariant, PTL DEF Spec, ImplementsPermits, Access!Spec
=============================================================================
