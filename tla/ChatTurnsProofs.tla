-------------------------- MODULE ChatTurnsProofs --------------------------
(***************************************************************************)
(* Theorems about ChatTurns that hold for every choice of its constants.   *)
(***************************************************************************)
EXTENDS ChatTurns, QueryCacheLaws, TLAPS

-----------------------------------------------------------------------------
(* The laws of the query cache that are used below.                        *)

LEMMA EntriesClosed ==
    ASSUME NEW Data
    PROVE  EntryLaw(Data)
<1>1. Unloaded \in Entries(Data)
  BY DEF Entries, Unloaded
<1>2. ASSUME NEW e \in Entries(Data)
      PROVE  /\ Ask(e) \in Entries(Data) /\ Arrive(e) \in Entries(Data) /\ Fail(e) \in Entries(Data)
             /\ \A b \in BOOLEAN : Invalidate(e, b) \in Entries(Data)
             /\ \A v \in Data : Serve(e, v) \in Entries(Data) /\ Write(e, v) \in Entries(Data)
             /\ Loaded(e) => e.data \in Data
  BY DEF Entries, Ask, Arrive, Fail, Invalidate, AskAgain, Serve, Write, Fetching, Loaded
<1>. QED  BY <1>1, <1>2 DEF EntryLaw

LEMMA FetchMoves ==
    ASSUME NEW Data
    PROVE  FetchLaw(Data)
BY DEF FetchLaw, Entries, Ask, Arrive, Fail, Invalidate, AskAgain, Fetching, Loaded

LEMMA TrueStays ==
    ASSUME NEW Data
    PROVE  TrueStaysLaw(Data)
BY FetchMoves DEF FetchLaw, TrueStaysLaw, IsTrue

LEMMA TrueAgain ==
    ASSUME NEW Data
    PROVE  TrueAgainLaw(Data)
BY FetchMoves DEF FetchLaw, TrueAgainLaw, IsTrue, Serve, Entries

Caches == [Threads -> Entries(SUBSET Messages)]

-----------------------------------------------------------------------------
(* What the operations on a cache entry do to the messages it holds.       *)

LEMMA EntryData ==
    ASSUME NEW e \in Entries(SUBSET Messages)
    PROVE  /\ Ask(e).data = e.data /\ Ask(e).answer = e.answer
           /\ Fail(e).data = e.data /\ Fail(e).answer = NoData
           /\ Arrive(e).data = e.answer /\ Arrive(e).answer = NoData
           /\ \A b \in BOOLEAN : /\ Invalidate(e, b).data = e.data
                                 /\ Invalidate(e, b).answer \in {e.answer, NoData}
           /\ \A d \in SUBSET Messages : /\ Serve(e, d).data = e.data /\ Serve(e, d).answer = d
                                         /\ Write(e, d).data = d /\ Write(e, d).answer = e.answer
BY DEF Entries, Ask, Arrive, Fail, Invalidate, AskAgain, Serve, Write, Fetching, Loaded

LEMMA WatchData ==
    ASSUME NEW m \in Caches, NEW a \in Threads \cup {NoThread}, NEW n \in Watch(m, a)
    PROVE  /\ n \in Caches
           /\ \A c \in Threads : n[c].data = m[c].data /\ n[c].answer = m[c].answer
<1>1. CASE a = NoThread
  BY <1>1 DEF Watch
<1>2. CASE a # NoThread
  <2>1. PICK x \in Mount(m[a]) : n = [m EXCEPT ![a] = x]
    BY <1>2 DEF Watch
  <2>2. x \in {m[a], Ask(m[a])} /\ m[a] \in Entries(SUBSET Messages)
    BY <1>2, <2>1 DEF Mount, Caches
  <2>3. x \in Entries(SUBSET Messages) /\ x.data = m[a].data /\ x.answer = m[a].answer
    <3>1. Ask(m[a]) \in Entries(SUBSET Messages)
      BY <2>2, EntriesClosed DEF EntryLaw
    <3>. QED  BY <2>2, <3>1, EntryData
  <2>. QED  BY <2>1, <2>3 DEF Caches
<1>. QED  BY <1>1, <1>2

LEMMA KnownType ==
    ASSUME TypeOK, NEW c \in Threads
    PROVE  Known(c) \in SUBSET Messages
<1>1. msgs[c] \in Entries(SUBSET Messages)
  BY DEF TypeOK
<1>. QED  BY <1>1, EntriesClosed DEF EntryLaw, Known

-----------------------------------------------------------------------------
(* Type correctness.                                                       *)

Turns == [at : {"none", "sent", "asked", "replied", "failed", "over"},
          thread : Threads \cup {NoThread}, cut : BOOLEAN]

LEMMA InitTypeOK == Init => TypeOK
<1>1. Unloaded \in Entries(SUBSET Messages)
  BY EntriesClosed DEF EntryLaw
<1>. QED  BY <1>1, TurnAssumption DEF Init, TypeOK, NoTurn

\* A step of a turn keeps the type of what it does not move.
LEMMA MoveType ==
    ASSUME TypeOK, NEW q \in Questions, NEW place \in {"asked", "replied", "failed", "over"},
           turn[q].at # "none", To(q, place)
    PROVE  /\ turn' \in [Questions -> Turns]
           /\ turn'[q].at = place /\ turn'[q].cut = turn[q].cut
           /\ turn[q].thread \in Threads /\ turn'[q].thread = turn[q].thread
           /\ \A p \in Questions : p # q => turn'[p] = turn[p]
BY DEF TypeOK, To, Turns

LEMMA ServerTypeOK ==
    ASSUME TypeOK, NEW q \in Questions, ServerTurn(q)
    PROVE  TypeOK'
<1> USE DEF TypeOK
<1>0. turn[q].thread \in Threads
  BY DEF ServerTurn, QuestionSaved, TurnRefused, ReplySaved, TurnFails
<1>1. ASSUME NEW role \in Roles, Add(q, role)
      PROVE  log' \in [Threads -> SUBSET Messages]
  BY <1>1, <1>0 DEF Add, Messages
<1>2. ASSUME Noted(q)
      PROVE  unheard' \subseteq Threads
  BY <1>0, <1>2 DEF Noted
<1>3. CASE QuestionSaved(q)
  <2>1. log' \in [Threads -> SUBSET Messages] /\ unheard' \subseteq Threads
    BY <1>1, <1>2, <1>3 DEF QuestionSaved, Roles
  <2>2. To(q, "asked") /\ turn[q].at = "sent"
    BY <1>3 DEF QuestionSaved
  <2>. QED  BY <1>3, <2>1, <2>2, MoveType DEF QuestionSaved, Turns
<1>4. CASE TurnRefused(q)
  <2>1. To(q, "failed") /\ turn[q].at = "sent"
    BY <1>4 DEF TurnRefused
  <2>. QED  BY <1>4, <2>1, MoveType DEF TurnRefused, server, Turns
<1>5. CASE ReplySaved(q)
  <2>1. log' \in [Threads -> SUBSET Messages] /\ unheard' \subseteq Threads
    BY <1>1, <1>2, <1>5 DEF ReplySaved, Roles
  <2>2. To(q, "replied") /\ turn[q].at = "asked"
    BY <1>5 DEF ReplySaved
  <2>. QED  BY <1>5, <2>1, <2>2, MoveType DEF ReplySaved, Turns
<1>6. CASE TurnFails(q)
  <2>1. To(q, "failed") /\ turn[q].at = "asked"
    BY <1>6 DEF TurnFails
  <2>. QED  BY <1>6, <2>1, MoveType DEF TurnFails, server, Turns
<1>. QED  BY <1>3, <1>4, <1>5, <1>6 DEF ServerTurn

LEMMA PageTypeOK ==
    ASSUME TypeOK, NEW q \in Questions, TurnDone(q) \/ TurnErrors(q) \/ StreamCut(q)
    PROVE  TypeOK'
<1> USE DEF TypeOK
<1>0. turn[q].thread \in Threads /\ msgs \in Caches
  BY DEF TurnDone, TurnErrors, StreamCut, Caches
<1>1. ASSUME NoLongerSending(q)
      PROVE  sending' \in Questions \cup {NoQuestion} /\ sending' # q
             /\ (sending' # NoQuestion => sending' = sending)
  BY <1>1, TurnAssumption DEF NoLongerSending
<1>2. CASE TurnDone(q)
  <2>1. To(q, "over") /\ turn[q].at = "replied" /\ NoLongerSending(q)
    BY <1>2 DEF TurnDone
  <2>2. msgs' \in Caches
    <3>1. Invalidate(msgs[turn[q].thread], active = turn[q].thread) \in Entries(SUBSET Messages)
      BY <1>0, EntriesClosed DEF EntryLaw, Caches
    <3>. QED  BY <1>0, <1>2, <3>1 DEF TurnDone, Caches
  <2>3. unheard' \subseteq Threads
    BY <1>0, <1>2 DEF TurnDone
  <2>. QED  BY <1>1, <1>2, <2>1, <2>2, <2>3, MoveType DEF TurnDone, server, Turns, Caches
<1>3. CASE TurnErrors(q)
  <2>1. To(q, "over") /\ turn[q].at = "failed" /\ NoLongerSending(q)
    BY <1>3 DEF TurnErrors
  <2>. QED  BY <1>0, <1>1, <1>3, <2>1, MoveType DEF TurnErrors, server, Turns
<1>4. CASE StreamCut(q)
  <2>1. /\ turn' \in [Questions -> Turns]
        /\ turn'[q].at = turn[q].at /\ turn'[q].thread = turn[q].thread
        /\ \A p \in Questions : p # q => turn'[p] = turn[p]
    BY <1>4 DEF StreamCut, Turns
  <2>. QED  BY <1>0, <1>1, <1>4, <2>1 DEF StreamCut, server, Turns
<1>. QED  BY <1>2, <1>3, <1>4

LEMMA SubmitTypeOK ==
    ASSUME TypeOK, NEW q \in Questions, Submit(q)
    PROVE  TypeOK'
<1> USE DEF TypeOK
<1>1. active \in Threads /\ msgs \in Caches
  BY DEF Submit, Caches
<1>2. Write(msgs[active], Known(active) \cup {<<q, "draft">>}) \in Entries(SUBSET Messages)
  <2>1. Known(active) \in SUBSET Messages /\ <<q, "draft">> \in Messages
    BY <1>1, KnownType DEF Messages, Roles
  <2>2. msgs[active] \in Entries(SUBSET Messages)
    BY <1>1
  <2>. QED  BY <2>1, <2>2, EntriesClosed DEF EntryLaw
<1>3. msgs' \in Caches
  BY <1>1, <1>2 DEF Submit, Caches
<1>4. /\ turn' \in [Questions -> Turns]
      /\ turn'[q].at = "sent" /\ turn'[q].thread = active /\ ~turn'[q].cut
      /\ \A p \in Questions : p # q => turn'[p] = turn[p]
  BY <1>1 DEF Submit, Turns
<1>. QED  BY <1>1, <1>3, <1>4 DEF Submit, server, Turns, Caches

LEMMA ThreadTypeOK ==
    ASSUME TypeOK,
           \/ \E c \in Threads :
                 ThreadRemoved(c) \/ MessagesServed(c) \/ MessagesArrive(c) \/ MessagesFail(c)
           \/ \E a \in Threads \cup {NoThread} : Switch(a) \/ DeleteSucceeds(a)
           \/ Refocus \/ Leave
    PROVE  TypeOK'
<1> USE DEF TypeOK, server
<1>0. msgs \in Caches
  BY DEF Caches
<1>1. ASSUME NEW c \in Threads, ThreadRemoved(c)
      PROVE  TypeOK'
  BY <1>1 DEF ThreadRemoved
<1>2. ASSUME NEW c \in Threads, MessagesServed(c) \/ MessagesArrive(c) \/ MessagesFail(c)
      PROVE  TypeOK'
  <2>1. PICK e \in Entries(SUBSET Messages) : msgs' = [msgs EXCEPT ![c] = e]
    BY <1>0, <1>2, EntriesClosed DEF EntryLaw, MessagesServed, MessagesArrive, MessagesFail, Caches
  <2>2. unheard' \subseteq Threads /\ UNCHANGED <<server, turn, active, sending>>
    BY <1>2 DEF MessagesServed, MessagesArrive, MessagesFail
  <2>. QED  BY <2>1, <2>2
<1>3. ASSUME NEW a \in Threads \cup {NoThread}, Switch(a) \/ DeleteSucceeds(a)
      PROVE  TypeOK'
  <2>1. msgs' \in Caches
    <3>1. CASE Switch(a)
      BY <1>0, <3>1, WatchData DEF Switch
    <3>2. CASE DeleteSucceeds(a)
      <4>1. active \in Threads /\ Invalidate(msgs[active], TRUE) \in Entries(SUBSET Messages)
        BY <1>0, <3>2, EntriesClosed DEF EntryLaw, DeleteSucceeds, Caches
      <4>2. [msgs EXCEPT ![active] = Invalidate(@, TRUE)] \in Caches
        BY <1>0, <4>1 DEF Caches
      <4>. QED  BY <3>2, <4>2, WatchData DEF DeleteSucceeds
    <3>. QED  BY <1>3, <3>1, <3>2
  <2>2. active' = a /\ UNCHANGED <<server, turn, sending, unheard>>
    BY <1>3 DEF Switch, DeleteSucceeds
  <2>. QED  BY <2>1, <2>2 DEF Caches
<1>4. CASE Refocus
  BY <1>0, <1>4, WatchData DEF Refocus, Caches
<1>5. CASE Leave
  BY <1>5 DEF Leave
<1>. QED  BY <1>1, <1>2, <1>3, <1>4, <1>5

LEMMA StepTypeOK == TypeOK /\ [Next]_vars => TypeOK'
<1>1. TypeOK /\ UNCHANGED vars => TypeOK'
  BY DEF vars, server, TypeOK
<1>. QED  BY <1>1, ServerTypeOK, PageTypeOK, SubmitTypeOK, ThreadTypeOK DEF Next

\* Every variable keeps its range, and the form waits only for a turn that has
\* not ended.
THEOREM TypeCorrect == Spec => []TypeOK
BY InitTypeOK, StepTypeOK, PTL DEF Spec

-----------------------------------------------------------------------------
(* What is stored.                                                         *)

\* A turn that waits for its reply has its question, if the thread is there.
LogInv ==
    /\ TypeOK
    /\ RepliesHaveQuestions
    /\ \A q \in Questions :
          turn[q].at = "asked" /\ turn[q].thread \in live =>
              <<q, "user">> \in log[turn[q].thread]
    /\ \A q \in Questions, c \in Threads, r \in Roles :
          <<q, r>> \in log[c] => turn[q].at # "none" /\ r # "draft"

LEMMA InitLogInv == Init => LogInv
BY InitTypeOK DEF Init, LogInv, RepliesHaveQuestions, NoTurn

LEMMA ServerLogInv ==
    ASSUME LogInv, NEW q \in Questions, ServerTurn(q)
    PROVE  LogInv'
<1> DEFINE t == turn[q].thread
<1> USE DEF LogInv
<1>1. TypeOK' /\ t \in Threads /\ live' = live
  BY ServerTypeOK DEF TypeOK, ServerTurn, QuestionSaved, TurnRefused, ReplySaved, TurnFails, server
<1>2. PICK place \in {"asked", "replied", "failed"} : To(q, place) /\ turn[q].at # "none"
  BY DEF ServerTurn, QuestionSaved, TurnRefused, ReplySaved, TurnFails
<1>3. /\ turn'[q].at = place /\ turn'[q].thread = t
      /\ \A p \in Questions : p # q => turn'[p] = turn[p]
  BY <1>2, MoveType
<1>4. CASE log' = log /\ place = "failed"
  BY <1>1, <1>2, <1>3, <1>4 DEF RepliesHaveQuestions
<1>5. ASSUME NEW role \in {"user", "assistant"}, Add(q, role), t \in live,
             role = "assistant" => <<q, "user">> \in log[t] /\ place = "replied"
      PROVE  LogInv'
  <2>1. /\ \A c \in Threads : c # t => log'[c] = log[c]
        /\ log'[t] = log[t] \cup {<<q, role>>}
    BY <1>1, <1>5 DEF Add, TypeOK
  <2>2. \A p \in Questions, c \in Threads, r \in Roles :
           <<p, r>> \in log'[c] <=> <<p, r>> \in log[c] \/ (p = q /\ c = t /\ r = role)
    <3> SUFFICES ASSUME NEW p \in Questions, NEW c \in Threads, NEW r \in Roles
                 PROVE  <<p, r>> \in log'[c] <=> <<p, r>> \in log[c] \/ (p = q /\ c = t /\ r = role)
      OBVIOUS
    <3>1. <<p, r>> = <<q, role>> <=> p = q /\ r = role
      OBVIOUS
    <3>2. CASE c = t
      <4>1. log'[c] = log[c] \cup {<<q, role>>}
        BY <2>1, <3>2
      <4>2. <<p, r>> \in log'[c] <=> <<p, r>> \in log[c] \/ <<p, r>> = <<q, role>>
        BY <4>1, Zenon
      <4>. QED  BY <3>1, <3>2, <4>2, Zenon
    <3>3. CASE c # t
      BY <2>1, <3>3, Zenon
    <3>. QED  BY <3>2, <3>3
  <2>3. RepliesHaveQuestions'
    <3> SUFFICES ASSUME NEW c \in Threads, NEW p \in Questions
                 PROVE  /\ <<p, "assistant">> \in log'[c] => <<p, "user">> \in log'[c]
                        /\ \A r \in Roles : <<p, r>> \in log'[c] => c \in live /\ turn'[p].thread = c
      BY <1>1 DEF RepliesHaveQuestions
    <3>1. "user" \in Roles /\ "assistant" \in Roles
      BY DEF Roles
    <3>2. turn'[p].thread = turn[p].thread
      BY <1>3
    <3>3. <<p, "assistant">> \in log'[c] => <<p, "user">> \in log'[c]
      BY <1>5, <2>2, <3>1 DEF RepliesHaveQuestions
    <3>4. \A r \in Roles : <<p, r>> \in log'[c] => c \in live /\ turn[p].thread = c
      <4> SUFFICES ASSUME NEW r \in Roles, <<p, r>> \in log'[c]
                   PROVE  c \in live /\ turn[p].thread = c
        OBVIOUS
      <4>1. CASE <<p, r>> \in log[c]
        BY <4>1 DEF RepliesHaveQuestions
      <4>2. CASE p = q /\ c = t
        BY <1>5, <4>2
      <4>. QED  BY <2>2, <4>1, <4>2
    <3>. QED  BY <3>2, <3>3, <3>4
  <2>4. \A p \in Questions :
           turn'[p].at = "asked" /\ turn'[p].thread \in live' =>
               <<p, "user">> \in log'[turn'[p].thread]
    BY <1>1, <1>3, <1>5, <2>1, <2>2 DEF TypeOK
  <2>5. \A p \in Questions, c \in Threads, r \in Roles :
           <<p, r>> \in log'[c] => turn'[p].at # "none" /\ r # "draft"
    BY <1>2, <1>3, <1>5, <2>2
  <2>. QED  BY <1>1, <2>3, <2>4, <2>5
<1>6. QuestionSaved(q) => Add(q, "user") /\ t \in live
  BY DEF QuestionSaved
<1>7. ReplySaved(q) => Add(q, "assistant") /\ t \in live /\ <<q, "user">> \in log[t] /\ place = "replied"
  <2>1. ReplySaved(q) => turn[q].at = "asked" /\ To(q, "replied")
    BY DEF ReplySaved
  <2>2. ReplySaved(q) => place = "replied"
    BY <2>1, <1>2, <1>3, MoveType
  <2>. QED  BY <2>1, <2>2 DEF ReplySaved
<1>8. TurnRefused(q) \/ TurnFails(q) => log' = log /\ place = "failed"
  <2>1. TurnRefused(q) \/ TurnFails(q) => To(q, "failed") /\ log' = log
    BY DEF TurnRefused, TurnFails, server
  <2>. QED  BY <1>2, <1>3, <2>1, MoveType
<1>. QED  BY <1>4, <1>5, <1>6, <1>7, <1>8 DEF ServerTurn

LEMMA StepLogInv == LogInv /\ [Next]_vars => LogInv'
<1> SUFFICES ASSUME LogInv, [Next]_vars
             PROVE  LogInv'
  OBVIOUS
<1>0. TypeOK'
  BY StepTypeOK DEF LogInv
<1> USE DEF LogInv, RepliesHaveQuestions
<1>1. CASE UNCHANGED <<live, log, turn>>
  BY <1>0, <1>1
<1>2. ASSUME NEW c \in Threads, ThreadRemoved(c)
      PROVE  LogInv'
  <2>1. /\ live' = live \ {c} /\ turn' = turn
        /\ log' = [log EXCEPT ![c] = {}]
    BY <1>2 DEF ThreadRemoved
  <2>2. /\ \A x \in Threads : x # c => log'[x] = log[x]
        /\ log'[c] = {}
    BY <2>1 DEF TypeOK
  <2>3. \A q, r, x : x \in Threads /\ <<q, r>> \in log'[x] => x # c /\ <<q, r>> \in log[x]
    BY <2>2
  <2>4. RepliesHaveQuestions'
    BY <2>1, <2>2, <2>3, Zenon
  <2>5. \A q \in Questions :
           turn'[q].at = "asked" /\ turn'[q].thread \in live' =>
               <<q, "user">> \in log'[turn'[q].thread]
    BY <2>1, <2>2 DEF TypeOK
  <2>. QED  BY <1>0, <2>1, <2>3, <2>4, <2>5
<1>3. ASSUME NEW q \in Questions, Submit(q)
      PROVE  LogInv'
  <2>1. /\ live' = live /\ log' = log /\ turn[q].at = "none" /\ turn'[q].at = "sent"
        /\ \A p \in Questions : p # q => turn'[p] = turn[p]
    BY <1>3 DEF Submit, server, TypeOK
  <2>2. \A c \in Threads, r \in Roles : <<q, r>> \notin log[c]
    BY <2>1
  <2>3. RepliesHaveQuestions'
    <3> SUFFICES ASSUME NEW c \in Threads, NEW p \in Questions
                 PROVE  /\ <<p, "assistant">> \in log[c] => <<p, "user">> \in log[c]
                        /\ \A r \in Roles : <<p, r>> \in log[c] => c \in live /\ turn'[p].thread = c
      BY <2>1
    <3>1. \A r \in Roles : <<p, r>> \in log[c] => p # q
      BY <2>2, Zenon
    <3>2. <<p, "assistant">> \in log[c] => <<p, "user">> \in log[c]
      OBVIOUS
    <3>3. ASSUME NEW r \in Roles, <<p, r>> \in log[c]
          PROVE  c \in live /\ turn'[p].thread = c
      <4>1. c \in live /\ turn[p].thread = c
        BY <3>3
      <4>. QED  BY <2>1, <3>1, <3>3, <4>1
    <3>. QED  BY <3>2, <3>3
  <2>. QED  BY <1>0, <2>1, <2>2, <2>3
<1>4. ASSUME NEW q \in Questions, TurnDone(q) \/ TurnErrors(q) \/ StreamCut(q)
      PROVE  LogInv'
  <2>1. /\ live' = live /\ log' = log
        /\ \A p \in Questions : /\ turn'[p].thread = turn[p].thread
                                /\ turn'[p].at = "none" => turn[p].at = "none"
                                /\ turn'[p].at = "asked" => turn[p].at = "asked"
    BY <1>4 DEF TurnDone, TurnErrors, StreamCut, To, server, TypeOK
  <2>2. RepliesHaveQuestions'
    <3> SUFFICES ASSUME NEW c \in Threads, NEW p \in Questions
                 PROVE  /\ <<p, "assistant">> \in log[c] => <<p, "user">> \in log[c]
                        /\ \A r \in Roles : <<p, r>> \in log[c] => c \in live /\ turn'[p].thread = c
      BY <2>1
    <3>. QED  BY <2>1, Zenon
  <2>. QED  BY <1>0, <2>1, <2>2
<1>5. CASE \/ \E c \in Threads : MessagesServed(c) \/ MessagesArrive(c) \/ MessagesFail(c)
           \/ \E a \in Threads \cup {NoThread} : Switch(a) \/ DeleteSucceeds(a)
           \/ Refocus \/ Leave
  <2>1. UNCHANGED <<live, log, turn>>
    BY <1>5 DEF MessagesServed, MessagesArrive, MessagesFail, Switch, DeleteSucceeds, Refocus,
                Leave, server
  <2>. QED  BY <1>1, <2>1
<1>6. CASE UNCHANGED vars
  BY <1>1, <1>6 DEF vars, server
<1>. QED  BY <1>2, <1>3, <1>4, <1>5, <1>6, ServerLogInv DEF Next

\* Whatever is deleted while an answer streams, no stored reply stands without
\* its question or outside its conversation.
THEOREM RepliesKept == Spec => []RepliesHaveQuestions
<1>1. LogInv => RepliesHaveQuestions
  BY DEF LogInv
<1>. QED  BY <1>1, InitLogInv, StepLogInv, PTL DEF Spec

-----------------------------------------------------------------------------
(* The page's copy of a question and the stored one.                       *)

Unasked == {q \in Questions : turn[q].at = "none"}

\* What a fetch brings: stored messages, of questions that were asked.
FromServer(d, unasked) ==
    \A q \in Questions :
        /\ <<q, "draft">> \notin d
        /\ q \in unasked => <<q, "user">> \notin d

\* What a cache holds: of each question one copy at most.
OnceEach(d, unasked) ==
    \A q \in Questions :
        /\ <<q, "draft">> \in d => <<q, "user">> \notin d
        /\ q \in unasked => <<q, "user">> \notin d

CopiesApart ==
    \A c \in Threads :
        /\ msgs[c].answer # NoData => FromServer(msgs[c].answer, Unasked)
        /\ msgs[c].data # NoData => OnceEach(msgs[c].data, Unasked)

CopyInv == LogInv /\ CopiesApart

LEMMA InitCopyInv == Init => CopyInv
BY InitLogInv DEF Init, CopyInv, CopiesApart, Unloaded

\* What is stored may be brought.
LEMMA LogFromServer ==
    ASSUME LogInv, NEW c \in Threads
    PROVE  FromServer(log[c], Unasked)
<1>1. "user" \in Roles /\ "draft" \in Roles
  BY DEF Roles
<1>. QED  BY <1>1 DEF LogInv, FromServer, Unasked

\* With fewer questions unasked there is less to ask of a value.
LEMMA FewerUnasked ==
    ASSUME NEW M, NEW N \in SUBSET M, NEW d
    PROVE  /\ FromServer(d, M) => FromServer(d, N) /\ OnceEach(d, N)
           /\ OnceEach(d, M) => OnceEach(d, N)
BY DEF FromServer, OnceEach

\* A step keeps the copies apart if it only moves turns on and drops answers,
\* takes an answer for data, or brings what is stored.
LEMMA MoveCopyInv ==
    ASSUME CopyInv, LogInv',
           \A q \in Questions : turn'[q].at = "none" => turn[q].at = "none",
           \A c \in Threads : /\ msgs'[c].answer \in {msgs[c].answer, NoData, log[c]}
                              /\ msgs'[c].data \in {msgs[c].data, msgs[c].answer}
    PROVE  CopyInv'
<1>1. Unasked' \in SUBSET Unasked
  BY DEF Unasked
<1>2. ASSUME NEW c \in Threads
      PROVE  /\ msgs'[c].answer # NoData => FromServer(msgs'[c].answer, Unasked')
             /\ msgs'[c].data # NoData => OnceEach(msgs'[c].data, Unasked')
  <2>1. msgs'[c].answer # NoData => FromServer(msgs'[c].answer, Unasked)
    BY LogFromServer DEF CopyInv, CopiesApart
  <2>2. msgs'[c].data # NoData => \/ FromServer(msgs'[c].data, Unasked)
                                  \/ OnceEach(msgs'[c].data, Unasked)
    BY DEF CopyInv, CopiesApart
  <2>. QED  BY <1>1, <2>1, <2>2, FewerUnasked
<1>. QED  BY <1>2 DEF CopyInv, CopiesApart

LEMMA SubmitCopyInv ==
    ASSUME CopyInv, LogInv', NEW q \in Questions, Submit(q)
    PROVE  CopyInv'
<1> DEFINE e == msgs[active]
           d == Known(active) \cup {<<q, "draft">>}
<1> USE DEF CopyInv, CopiesApart
<1>1. /\ active \in Threads /\ msgs \in Caches /\ e \in Entries(SUBSET Messages)
      /\ turn[q].at = "none" /\ turn'[q].at = "sent"
      /\ \A p \in Questions : p # q => turn'[p] = turn[p]
      /\ msgs' = [msgs EXCEPT ![active] = Write(e, d)]
  BY DEF Submit, LogInv, TypeOK, Caches
<1>2. /\ \A c \in Threads : c # active => msgs'[c] = msgs[c]
      /\ msgs'[active].data = d /\ msgs'[active].answer = e.answer
  BY <1>1 DEF Write, Entries, Caches
<1>3. Unasked' \in SUBSET Unasked /\ q \in Unasked
  BY <1>1 DEF Unasked
<1>4. OnceEach(d, Unasked')
  <2>1. OnceEach(Known(active), Unasked)
    BY <1>1 DEF Known, Loaded, OnceEach
  <2> SUFFICES ASSUME NEW p \in Questions
               PROVE  /\ <<p, "draft">> \in d => <<p, "user">> \notin d
                      /\ p \in Unasked' => <<p, "user">> \notin d
    BY DEF OnceEach
  <2>2. <<p, "user">> \in d <=> <<p, "user">> \in Known(active)
    OBVIOUS
  <2>3. <<p, "draft">> \in d <=> <<p, "draft">> \in Known(active) \/ p = q
    OBVIOUS
  <2>. HIDE DEF d
  <2>. QED  BY <1>3, <2>1, <2>2, <2>3 DEF OnceEach
<1>5. ASSUME NEW c \in Threads
      PROVE  /\ msgs'[c].answer # NoData => FromServer(msgs'[c].answer, Unasked')
             /\ msgs'[c].data # NoData => OnceEach(msgs'[c].data, Unasked')
  <2>1. CASE c = active
    <3>. HIDE DEF d
    <3>1. e.answer # NoData => FromServer(e.answer, Unasked')
      BY <1>1, <1>3, FewerUnasked
    <3>. QED  BY <1>2, <1>4, <2>1, <3>1
  <2>2. CASE c # active
    BY <1>2, <1>3, <2>2, FewerUnasked
  <2>. QED  BY <2>1, <2>2
<1>. QED  BY <1>5

LEMMA StepCopyInv == CopyInv /\ [Next]_vars => CopyInv'
<1> SUFFICES ASSUME CopyInv, [Next]_vars
             PROVE  CopyInv'
  OBVIOUS
<1>0. LogInv' /\ TypeOK /\ msgs \in Caches
  BY StepLogInv DEF CopyInv, LogInv, TypeOK, Caches
<1>1. ASSUME msgs' = msgs, \A q \in Questions : turn'[q].at = "none" => turn[q].at = "none"
      PROVE  CopyInv'
  BY <1>0, <1>1, MoveCopyInv
<1>2. ASSUME NEW q \in Questions, ServerTurn(q) \/ TurnErrors(q) \/ StreamCut(q)
      PROVE  CopyInv'
  <2>1. msgs' = msgs
    BY <1>2 DEF ServerTurn, QuestionSaved, TurnRefused, ReplySaved, TurnFails, TurnErrors, StreamCut
  <2>2. \A p \in Questions : turn'[p].at = "none" => turn[p].at = "none"
    BY <1>0, <1>2 DEF ServerTurn, QuestionSaved, TurnRefused, ReplySaved, TurnFails, TurnErrors,
                      StreamCut, To, TypeOK
  <2>. QED  BY <1>1, <2>1, <2>2
<1>3. ASSUME NEW q \in Questions, TurnDone(q)
      PROVE  CopyInv'
  <2> DEFINE t == turn[q].thread
  <2>1. /\ t \in Threads /\ msgs' = [msgs EXCEPT ![t] = Invalidate(@, active = t)]
        /\ To(q, "over") /\ turn[q].at # "none"
    BY <1>0, <1>3 DEF TurnDone, TypeOK
  <2>2. \A p \in Questions : turn'[p].at = "none" => turn[p].at = "none"
    BY <1>0, <2>1, MoveType
  <2>3. ASSUME NEW c \in Threads
        PROVE  /\ msgs'[c].answer \in {msgs[c].answer, NoData, log[c]}
               /\ msgs'[c].data \in {msgs[c].data, msgs[c].answer}
    <3>1. msgs[c] \in Entries(SUBSET Messages)
      BY <1>0 DEF Caches
    <3>2. msgs'[c] \in {msgs[c], Invalidate(msgs[c], active = t)}
      BY <1>0, <2>1 DEF Caches
    <3>. QED  BY <3>1, <3>2, EntryData
  <2>. QED  BY <1>0, <2>2, <2>3, MoveCopyInv
<1>4. ASSUME NEW c \in Threads, MessagesServed(c) \/ MessagesArrive(c) \/ MessagesFail(c)
      PROVE  CopyInv'
  <2>1. /\ turn' = turn
        /\ msgs' \in {[msgs EXCEPT ![c] = Serve(msgs[c], log[c])], [msgs EXCEPT ![c] = Arrive(msgs[c])],
                      [msgs EXCEPT ![c] = Fail(msgs[c])]}
    BY <1>4 DEF MessagesServed, MessagesArrive, MessagesFail
  <2>2. ASSUME NEW x \in Threads
        PROVE  /\ msgs'[x].answer \in {msgs[x].answer, NoData, log[x]}
               /\ msgs'[x].data \in {msgs[x].data, msgs[x].answer}
    <3>1. msgs[x] \in Entries(SUBSET Messages) /\ log[x] \in SUBSET Messages
      BY <1>0 DEF Caches, TypeOK
    <3>2. \/ msgs'[x] = msgs[x] \/ msgs'[x] = Serve(msgs[x], log[x])
          \/ msgs'[x] = Arrive(msgs[x]) \/ msgs'[x] = Fail(msgs[x])
      BY <1>0, <2>1 DEF Caches
    <3>3. CASE msgs'[x] = msgs[x]
      BY <3>3
    <3>4. CASE msgs'[x] = Serve(msgs[x], log[x])
      <4>1. /\ Serve(msgs[x], log[x]).answer = log[x]
            /\ Serve(msgs[x], log[x]).data = msgs[x].data
        BY <3>1 DEF Serve, Entries
      <4>. QED  BY <3>4, <4>1
    <3>5. CASE msgs'[x] = Arrive(msgs[x])
      BY <3>1, <3>5, EntryData
    <3>6. CASE msgs'[x] = Fail(msgs[x])
      BY <3>1, <3>6, EntryData
    <3>. QED  BY <3>2, <3>3, <3>4, <3>5, <3>6
  <2>. QED  BY <1>0, <2>1, <2>2, MoveCopyInv
<1>5. ASSUME NEW a \in Threads \cup {NoThread}, Switch(a)
      PROVE  CopyInv'
  <2>1. turn' = turn /\ msgs' \in Watch(msgs, a)
    BY <1>5 DEF Switch
  <2>. QED  BY <1>0, <2>1, WatchData, MoveCopyInv
<1>6. ASSUME NEW a \in Threads \cup {NoThread}, DeleteSucceeds(a)
      PROVE  CopyInv'
  <2> DEFINE m == [msgs EXCEPT ![active] = Invalidate(@, TRUE)]
  <2>1. turn' = turn /\ active \in Threads /\ msgs' \in Watch(m, a)
    BY <1>0, <1>6 DEF DeleteSucceeds, TypeOK
  <2>2. Invalidate(msgs[active], TRUE) \in Entries(SUBSET Messages)
    BY <1>0, <2>1, EntriesClosed DEF EntryLaw, Caches
  <2>3. m \in Caches
    BY <1>0, <2>1, <2>2 DEF Caches
  <2>4. ASSUME NEW c \in Threads
        PROVE  /\ m[c].answer \in {msgs[c].answer, NoData}
               /\ m[c].data = msgs[c].data
    <3>1. msgs[c] \in Entries(SUBSET Messages) /\ m[c] \in {msgs[c], Invalidate(msgs[c], TRUE)}
      BY <1>0, <2>1 DEF Caches
    <3>2. CASE m[c] = msgs[c]
      BY <3>2
    <3>3. CASE m[c] = Invalidate(msgs[c], TRUE)
      BY <3>1, <3>3, EntryData
    <3>. QED  BY <3>1, <3>2, <3>3
  <2>. HIDE DEF m
  <2>. QED  BY <1>0, <2>1, <2>3, <2>4, WatchData, MoveCopyInv
<1>7. CASE Refocus
  <2>1. turn' = turn /\ msgs' \in Watch(msgs, active) /\ active \in Threads \cup {NoThread}
    BY <1>0, <1>7 DEF Refocus, TypeOK
  <2>. QED  BY <1>0, <2>1, WatchData, MoveCopyInv
<1>8. CASE Leave \/ UNCHANGED vars \/ \E c \in Threads : ThreadRemoved(c)
  <2>1. msgs' = msgs /\ turn' = turn
    BY <1>8 DEF Leave, vars, ThreadRemoved
  <2>. QED  BY <1>1, <2>1
<1>. QED  BY <1>0, <1>2, <1>3, <1>4, <1>5, <1>6, <1>7, <1>8, SubmitCopyInv DEF Next

\* However turns, switches, fetches and deletions overlap, no question is shown
\* twice.
THEOREM QuestionsOnce == Spec => []NoQuestionTwice
<1>1. CopyInv => NoQuestionTwice
  <2> SUFFICES ASSUME CopyInv, NEW c \in Threads, NEW q \in Questions,
                      <<q, "draft">> \in Known(c), <<q, "user">> \in Known(c)
               PROVE  FALSE
    BY DEF NoQuestionTwice
  <2>1. Loaded(msgs[c]) /\ Known(c) = msgs[c].data
    BY DEF Known
  <2>. QED  BY <2>1 DEF CopyInv, CopiesApart, OnceEach, Loaded
<1>. QED  BY <1>1, InitCopyInv, StepCopyInv, PTL DEF Spec

-----------------------------------------------------------------------------
(* What a thread shows.                                                    *)

\* A thread of which the page was told everything, and that is in no turn.
TrueThread(c) == c \in live \ unheard /\ ~InTurn(c) => IsTrue(msgs[c], log[c])

QuietInv == TypeOK /\ \A c \in Threads : TrueThread(c)

LEMMA InitQuietInv == Init => QuietInv
<1>1. Init => TypeOK
  BY InitTypeOK
<1>. QED  BY <1>1 DEF Init, QuietInv, TrueThread, IsTrue, Unloaded, Loaded

\* A step that neither adds a message to c nor ends a turn there.
LEMMA TrueKept ==
    ASSUME TypeOK, NEW c \in Threads, TrueThread(c), log'[c] = log[c], live' \subseteq live,
           c \notin unheard' => c \notin unheard, ~InTurn(c)' => ~InTurn(c),
           IsTrue(msgs[c], log[c]) => IsTrue(msgs'[c], log[c])
    PROVE  TrueThread(c)'
BY DEF TrueThread

\* What Watch does to the entries.
LEMMA WatchTrue ==
    ASSUME NEW m \in Caches, NEW a \in Threads \cup {NoThread}, NEW n \in Watch(m, a),
           NEW c \in Threads, NEW stored, IsTrue(m[c], stored)
    PROVE  IsTrue(n[c], stored)
<1>1. m[c] \in Entries(SUBSET Messages)
  BY DEF Caches
<1>2. n[c] = m[c] \/ n[c] = Ask(m[c])
  BY DEF Watch, Mount, Caches
<1>. QED  BY <1>1, <1>2, TrueStays DEF TrueStaysLaw

LEMMA TurnTrue ==
    ASSUME QuietInv, NEW c \in Threads, NEW q \in Questions,
           ServerTurn(q) \/ TurnDone(q) \/ TurnErrors(q) \/ StreamCut(q)
    PROVE  TrueThread(c)'
<1> DEFINE t == turn[q].thread
<1>0. /\ TypeOK /\ TrueThread(c) /\ msgs[c] \in Entries(SUBSET Messages)
      /\ turn[q].at \in {"sent", "asked", "replied", "failed"} /\ t \in Threads
  BY DEF QuietInv, TypeOK, ServerTurn, QuestionSaved, TurnRefused, ReplySaved, TurnFails,
         TurnDone, TurnErrors, StreamCut
<1>1. live' = live
  BY DEF ServerTurn, QuestionSaved, TurnRefused, ReplySaved, TurnFails,
         TurnDone, TurnErrors, StreamCut, server
<1>2. ASSUME NEW place \in {"asked", "replied", "failed"}, To(q, place)
      PROVE  InTurn(c)' <=> InTurn(c)
  <2>1. /\ turn'[q].thread = t /\ turn'[q].cut = turn[q].cut
        /\ turn'[q].at # "over" /\ turn[q].at # "over"
        /\ \A p \in Questions : p # q => turn'[p] = turn[p]
    BY <1>0, <1>2, MoveType
  <2>2. ASSUME NEW p \in Questions
        PROVE  (turn'[p].thread = c /\ turn'[p].at # "over" /\ ~turn'[p].cut)
               <=> (turn[p].thread = c /\ turn[p].at # "over" /\ ~turn[p].cut)
    BY <2>1
  <2>. QED  BY <2>2 DEF InTurn
<1>3. ASSUME NEW role \in Roles, Add(q, role), Noted(q), NEW place \in {"asked", "replied"},
             To(q, place), msgs' = msgs
      PROVE  TrueThread(c)'
  <2>1. CASE c = t
    <3>1. CASE turn[q].cut
      BY <1>3, <2>1, <3>1 DEF Noted, TrueThread
    <3>2. CASE ~turn[q].cut
      <4>1. InTurn(c)
        BY <1>0, <2>1, <3>2 DEF InTurn
      <4>. QED  BY <1>2, <1>3, <4>1 DEF TrueThread
    <3>. QED  BY <3>1, <3>2
  <2>2. CASE c # t
    <3>1. log'[c] = log[c] /\ (c \notin unheard' => c \notin unheard)
      BY <1>0, <1>3, <2>2 DEF Add, Noted, TypeOK
    <3>. QED  BY <1>0, <1>1, <1>2, <1>3, <3>1, TrueKept
  <2>. QED  BY <2>1, <2>2
<1>4. CASE QuestionSaved(q)
  BY <1>3, <1>4 DEF QuestionSaved, Roles
<1>5. CASE ReplySaved(q)
  BY <1>3, <1>5 DEF ReplySaved, Roles
<1>6. CASE TurnRefused(q) \/ TurnFails(q)
  <2>1. /\ To(q, "failed") /\ msgs' = msgs /\ unheard' = unheard /\ log' = log
    BY <1>6 DEF TurnRefused, TurnFails, server
  <2>. QED  BY <1>0, <1>1, <1>2, <2>1, TrueKept
<1>7. ASSUME NEW p \in Questions, p # q, turn'[p] # turn[p], TurnDone(q) \/ TurnErrors(q) \/ StreamCut(q)
      PROVE  FALSE
  BY <1>0, <1>7 DEF TurnDone, TurnErrors, StreamCut, To, TypeOK
<1>8. ASSUME c # t, TurnDone(q) \/ TurnErrors(q) \/ StreamCut(q)
      PROVE  /\ log'[c] = log[c] /\ msgs'[c] = msgs[c]
             /\ c \notin unheard' => c \notin unheard
             /\ ~InTurn(c)' => ~InTurn(c)
  <2>1. log' = log /\ msgs'[c] = msgs[c] /\ (c \notin unheard' => c \notin unheard)
    BY <1>0, <1>8 DEF TurnDone, TurnErrors, StreamCut, server, TypeOK
  <2>2. \A p \in Questions : turn[p].thread = c => turn'[p] = turn[p]
    BY <1>7, <1>8
  <2>. QED  BY <2>1, <2>2 DEF InTurn
<1>9. CASE TurnErrors(q) \/ StreamCut(q)
  <2>1. CASE c = t
    <3>1. c \in unheard'
      BY <1>9, <2>1 DEF TurnErrors, StreamCut
    <3>. QED  BY <3>1 DEF TrueThread
  <2>2. CASE c # t
    BY <1>0, <1>1, <1>8, <1>9, <2>2, TrueKept
  <2>. QED  BY <2>1, <2>2
<1>10. CASE TurnDone(q)
  <2>1. CASE c = t
    <3>1. /\ msgs' = [msgs EXCEPT ![t] = Invalidate(@, active = t)] /\ log' = log
          /\ unheard' = unheard \cup (IF Overtaken(t) THEN {t} ELSE {})
      BY <1>10 DEF TurnDone, server
    <3>2. msgs'[c] = Invalidate(msgs[c], active = t)
      BY <1>0, <2>1, <3>1 DEF TypeOK
    <3>3. CASE Overtaken(t)
      BY <2>1, <3>1, <3>3 DEF TrueThread
    <3>4. CASE ~Overtaken(t)
      <4>1. msgs[c].fetch # "served" \/ ((active = t) /\ Loaded(msgs[c]))
        BY <2>1, <3>4 DEF Overtaken
      <4>2. (active = t) \in BOOLEAN
        OBVIOUS
      <4>3. IsTrue(Invalidate(msgs[c], active = t), log[c])
        BY <1>0, <4>1, <4>2, TrueAgain DEF TrueAgainLaw
      <4>. QED  BY <3>1, <3>2, <4>3 DEF TrueThread
    <3>. QED  BY <3>3, <3>4
  <2>2. CASE c # t
    BY <1>0, <1>1, <1>8, <1>10, <2>2, TrueKept
  <2>. QED  BY <2>1, <2>2
<1>. QED  BY <1>4, <1>5, <1>6, <1>9, <1>10 DEF ServerTurn

LEMMA ThreadTrue ==
    ASSUME QuietInv, NEW c \in Threads, NEW x \in Threads,
           ThreadRemoved(x) \/ MessagesServed(x) \/ MessagesArrive(x) \/ MessagesFail(x)
    PROVE  TrueThread(c)'
<1>0. TypeOK /\ TrueThread(c) /\ msgs[c] \in Entries(SUBSET Messages)
  BY DEF QuietInv, TypeOK
<1>1. turn' = turn /\ (InTurn(c)' <=> InTurn(c)) /\ live' \subseteq live
  BY DEF ThreadRemoved, MessagesServed, MessagesArrive, MessagesFail, InTurn, server
<1>2. CASE ThreadRemoved(x)
  <2>1. CASE c = x
    BY <1>2, <2>1 DEF ThreadRemoved, TrueThread
  <2>2. CASE c # x
    <3>1. log'[c] = log[c] /\ msgs' = msgs /\ unheard' = unheard
      BY <1>0, <1>2, <2>2 DEF ThreadRemoved, TypeOK
    <3>. QED  BY <1>0, <1>1, <3>1, TrueKept
  <2>. QED  BY <2>1, <2>2
<1>3. CASE MessagesServed(x)
  <2>1. /\ msgs' = [msgs EXCEPT ![x] = Serve(@, log[x])] /\ unheard' = unheard \ {x} /\ log' = log
    BY <1>3 DEF MessagesServed, server
  <2>2. CASE c = x
    <3>1. msgs'[c] = Serve(msgs[c], log[c])
      BY <1>0, <2>1, <2>2 DEF TypeOK
    <3>2. IsTrue(msgs'[c], log[c])
      BY <1>0, <3>1, TrueAgain DEF TrueAgainLaw
    <3>. QED  BY <2>1, <3>2 DEF TrueThread
  <2>3. CASE c # x
    <3>1. msgs'[c] = msgs[c] /\ (c \notin unheard' => c \notin unheard)
      BY <1>0, <2>1, <2>3 DEF TypeOK
    <3>. QED  BY <1>0, <1>1, <2>1, <3>1, TrueKept
  <2>. QED  BY <2>2, <2>3
<1>4. CASE MessagesArrive(x) \/ MessagesFail(x)
  <2>1. \/ msgs'[c] = msgs[c]
        \/ msgs[c].fetch = "served" /\ msgs'[c] = Arrive(msgs[c])
        \/ msgs'[c] = Fail(msgs[c])
    BY <1>0, <1>4 DEF MessagesArrive, MessagesFail, TypeOK
  <2>2. IsTrue(msgs[c], log[c]) => IsTrue(msgs'[c], log[c])
    BY <1>0, <2>1, TrueStays DEF TrueStaysLaw
  <2>3. log' = log /\ unheard' = unheard
    BY <1>4 DEF MessagesArrive, MessagesFail, server
  <2>. QED  BY <1>0, <1>1, <2>2, <2>3, TrueKept
<1>. QED  BY <1>2, <1>3, <1>4

LEMMA ScreenTrue ==
    ASSUME QuietInv, NEW c \in Threads,
           \/ \E q \in Questions : Submit(q)
           \/ \E a \in Threads \cup {NoThread} : Switch(a) \/ DeleteSucceeds(a)
           \/ Refocus \/ Leave
    PROVE  TrueThread(c)'
<1>0. TypeOK /\ TrueThread(c) /\ msgs \in Caches /\ active \in Threads \cup {NoThread}
  BY DEF QuietInv, TypeOK, Caches
<1>1. log' = log /\ live' = live /\ unheard' = unheard
  BY DEF Submit, Switch, DeleteSucceeds, Refocus, Leave, server
<1>2. ASSUME turn' = turn, IsTrue(msgs[c], log[c]) => IsTrue(msgs'[c], log[c])
      PROVE  TrueThread(c)'
  BY <1>0, <1>1, <1>2, TrueKept DEF InTurn
<1>3. ASSUME NEW q \in Questions, Submit(q)
      PROVE  TrueThread(c)'
  <2>1. /\ turn' = [turn EXCEPT ![q] = [at |-> "sent", thread |-> active, cut |-> FALSE]]
        /\ msgs' = [msgs EXCEPT ![active] = Write(@, Known(active) \cup {<<q, "draft">>})]
        /\ turn[q].at = "none" /\ active \in Threads
    BY <1>0, <1>3 DEF Submit
  <2>2. CASE c = active
    <3>1. turn'[q].thread = c /\ turn'[q].at # "over" /\ ~turn'[q].cut
      BY <1>0, <2>1, <2>2 DEF TypeOK
    <3>2. InTurn(c)'
      BY <3>1 DEF InTurn
    <3>. QED  BY <3>2 DEF TrueThread
  <2>3. CASE c # active
    <3>1. msgs'[c] = msgs[c]
      BY <1>0, <2>1, <2>3 DEF Caches
    <3>2. turn'[q].thread = active /\ \A p \in Questions : p # q => turn'[p] = turn[p]
      BY <1>0, <2>1 DEF TypeOK
    <3>3. turn[q].thread # c
      BY <1>0, <2>1 DEF TypeOK
    <3>4. ~InTurn(c)' => ~InTurn(c)
      BY <3>2, <3>3 DEF InTurn
    <3>. QED  BY <1>0, <1>1, <3>1, <3>4, TrueKept
  <2>. QED  BY <2>2, <2>3
<1>4. ASSUME NEW m \in Caches, NEW a \in Threads \cup {NoThread}, msgs' \in Watch(m, a),
             turn' = turn, IsTrue(msgs[c], log[c]) => IsTrue(m[c], log[c])
      PROVE  TrueThread(c)'
  BY <1>2, <1>4, WatchTrue
<1>5. ASSUME NEW a \in Threads \cup {NoThread}, DeleteSucceeds(a)
      PROVE  TrueThread(c)'
  <2> DEFINE m == [msgs EXCEPT ![active] = Invalidate(@, TRUE)]
  <2>1. turn' = turn /\ active \in Threads /\ msgs' \in Watch(m, a)
    BY <1>0, <1>5 DEF DeleteSucceeds
  <2>2. Invalidate(msgs[active], TRUE) \in Entries(SUBSET Messages)
    BY <1>0, <2>1, EntriesClosed DEF EntryLaw, Caches
  <2>3. m \in Caches /\ (m[c] = msgs[c] \/ m[c] = Invalidate(msgs[c], TRUE))
    BY <1>0, <2>1, <2>2 DEF Caches
  <2>4. IsTrue(msgs[c], log[c]) => IsTrue(m[c], log[c])
    BY <1>0, <2>3, TrueStays DEF TrueStaysLaw, Caches
  <2> HIDE DEF m
  <2>. QED  BY <1>4, <2>1, <2>3, <2>4
<1>6. CASE (\E a \in Threads \cup {NoThread} : Switch(a)) \/ Refocus
  BY <1>0, <1>4, <1>6 DEF Switch, Refocus
<1>7. CASE Leave
  BY <1>2, <1>7 DEF Leave
<1>. QED  BY <1>3, <1>5, <1>6, <1>7

LEMMA StepQuietInv == QuietInv /\ [Next]_vars => QuietInv'
<1> SUFFICES ASSUME QuietInv, [Next]_vars, NEW c \in Threads
             PROVE  TrueThread(c)'
  BY StepTypeOK DEF QuietInv
<1>1. CASE Next
  BY <1>1, TurnTrue, ThreadTrue, ScreenTrue DEF Next
<1>2. CASE UNCHANGED vars
  BY <1>2 DEF vars, server, QuietInv, TrueThread, InTurn
<1>. QED  BY <1>1, <1>2

\* A thread that is fresh and in no turn shows what the server has of it, unless
\* it changed without the page being told.
THEOREM QuietThreadsAreTrue == Spec => []QuietThreadIsTrue
<1>1. QuietInv => QuietThreadIsTrue
  BY DEF QuietInv, TypeOK, TrueThread, QuietThreadIsTrue, Quiet, IsTrue, Fetching
<1>. QED  BY <1>1, InitQuietInv, StepQuietInv, PTL DEF Spec
=============================================================================
